---- MODULE Spec2Model ----
(***************************************************************************)
(* Treescope intermediate representation (penzai.treescope                 *)
(* foldable_representation.basic_parts): the renderable parts, their       *)
(* layout measurements and their text and HTML renderings.                 *)
(*                                                                         *)
(* A Python str is a sequence of one-character strings.  The box drawing   *)
(* characters of BaseBoxWithOutline are written by their code points       *)
(* ("U+256D" is one character).  The HTML output stream is a sequence of   *)
(* characters, with each literal tag the code writes kept as one item.     *)
(***************************************************************************)
EXTENDS Integers, Sequences, FiniteSets, TLC

VARIABLES
  part,             \* the part built so far
  nodes,            \* number of parts the caller has constructed
  built,            \* the last constructor or builder call and its arguments
  pc,               \* "build", or the call that was made last on part
  expanded_parent,  \* arguments of the last render_to_text call
  indent,
  roundtrip_mode,
  at_beginning_of_line,  \* argument of the last render_to_html call
  render_context,   \* the dict handed to the last render call
  stream,           \* what the last render call wrote to its stream
  raised,           \* whether the last call ended in ValueError
  calls,            \* the render calls made during the last render call
  width,            \* value returned by the last collapsed_width
  newlines,         \* value returned by the last newlines_in_expanded_parent
  registry,         \* a registry dict: NDARRAY_ADAPTER_REGISTRY or
                    \* TREESCOPE_HANDLER_REGISTRY
  VIRTUAL_BASE_CLASSES,  \* the list of abstract base classes to ask
  virtual_subclasses,    \* the pairs <<S, B>> made by B.register(S)
  candidate_type,   \* argument of the last lookup_by_mro call
  result,           \* value returned by the last lookup_by_mro call
  sys_modules,      \* the names of the modules imported so far
  LAZY_MODULE_SETUP_FUNCTIONS,  \* the dict _LAZY_MODULE_SETUP_FUNCTIONS, as
                    \* the sequence of its items in iteration order
  setup_calls,      \* per module, how often its setup function was invoked
  setup_raised,     \* the module whose setup function raised in the last
                    \* update_registries_for_imports call, or "None"
  update_calls,     \* number of update_registries_for_imports calls made
  node,             \* the object handed to the named array handler
  inspect_device_data,  \* argument of the last summary call
  returned,         \* what the last call on node returned, and the calls it made
  part_foldables,   \* value of the last foldables_in_this_part
  part_tags         \* value of the last tags_in_this_part

vars == <<part, nodes, built, pc, expanded_parent, indent, roundtrip_mode,
          at_beginning_of_line, render_context, stream, raised, calls, width,
          newlines, registry, VIRTUAL_BASE_CLASSES, virtual_subclasses,
          candidate_type, result, sys_modules, LAZY_MODULE_SETUP_FUNCTIONS,
          setup_calls, setup_raised, update_calls, node, inspect_device_data,
          returned, part_foldables, part_tags>>

\* the state of type_registries.py
registries == <<registry, VIRTUAL_BASE_CLASSES, virtual_subclasses, candidate_type, result>>

\* the state of the lazy setup of type_registries.py
imports == <<sys_modules, LAZY_MODULE_SETUP_FUNCTIONS, setup_calls, setup_raised,
             update_calls>>

\* the state of the named array handler
named_arrays == <<node, inspect_device_data, returned>>

\* the values of the tree queries of a part
queries == <<part_foldables, part_tags>>

----------------------------------------------------------------------------
(* Bounds of the model *)

MaxNodes == 4
MaxIndent == 1

----------------------------------------------------------------------------
(* Python string helpers *)

NL == "\n"
SP == " "

\* " " * n
Spaces(n) == [i \in 1..n |-> SP]

\* c * n for a one-character string c
Repeat(c, n) == [i \in 1..n |-> c]

\* "\n" in text
HasNewline(text) == \E i \in 1..Len(text) : text[i] = NL

\* text.count("\n")
CountNewlines(text) == Cardinality({i \in 1..Len(text) : text[i] = NL})

\* text.split("\n"): the pieces between consecutive line breaks
Split(text) ==
  LET breaks == {i \in 1..Len(text) : text[i] = NL}
      n == Cardinality(breaks)
      at(k) == IF k = 0 THEN 0
               ELSE IF k = n + 1 THEN Len(text) + 1
               ELSE CHOOSE i \in breaks : Cardinality({j \in breaks : j < i}) = k - 1
  IN [k \in 1..(n + 1) |-> SubSeq(text, at(k - 1) + 1, at(k) - 1)]

RECURSIVE Join(_, _)
\* sep.join(pieces)
Join(sep, pieces) ==
  IF Len(pieces) = 0 THEN <<>>
  ELSE IF Len(pieces) = 1 THEN pieces[1]
  ELSE pieces[1] \o sep \o Join(sep, Tail(pieces))

\* text.splitlines(): like split("\n"), but a final line break opens no
\* further (empty) line, and the empty string has no lines
Splitlines(text) ==
  LET pieces == Split(text)
  IN IF pieces[Len(pieces)] = <<>> THEN SubSeq(pieces, 1, Len(pieces) - 1)
     ELSE pieces

\* html.escape(c) for one character
EscapeChar(c) ==
  CASE c = "&" -> <<"&amp;">>
    [] c = "<" -> <<"&lt;">>
    [] c = ">" -> <<"&gt;">>
    [] c = "\"" -> <<"&quot;">>
    [] c = "'" -> <<"&#x27;">>
    [] OTHER -> <<c>>

RECURSIVE HtmlEscape(_)
\* html.escape(text)
HtmlEscape(text) ==
  IF text = <<>> THEN <<>>
  ELSE EscapeChar(Head(text)) \o HtmlEscape(Tail(text))

----------------------------------------------------------------------------
(* The part types *)

EmptyPart == [type |-> "EmptyPart"]
Text(t) == [type |-> "Text", text |-> t]
Siblings(ch) == [type |-> "Siblings", children |-> ch]
VerticalSpace(h) == [type |-> "VerticalSpace", height |-> h]
BaseTaggedGroup(c, tags) == [type |-> "BaseTaggedGroup", child |-> c, tags |-> tags]
BaseSpanGroup(c, cls) == [type |-> "BaseSpanGroup", child |-> c, css_class |-> cls]
FoldCondition(c, e) == [type |-> "FoldCondition", collapsed |-> c, expanded |-> e]
RoundtripCondition(r, n) ==
  [type |-> "RoundtripCondition", roundtrip |-> r, not_roundtrip |-> n]
SummarizableCondition(s, d) ==
  [type |-> "SummarizableCondition", summary |-> s, detail |-> d]
OnSeparateLines(ch) == [type |-> "OnSeparateLines", children |-> ch]
IndentedChildren(ch) == [type |-> "IndentedChildren", children |-> ch]
BaseBoxWithOutline(c, cls) ==
  [type |-> "BaseBoxWithOutline", child |-> c, css_class |-> cls]
WithHoverTooltip(c, tip) == [type |-> "WithHoverTooltip", child |-> c, tooltip |-> tip]
ScopedSelectableAnnotation(c) == [type |-> "ScopedSelectableAnnotation", child |-> c]

\* Arguments of the builders that are not parts
Str(s) == [type |-> "str", value |-> s]
None == [type |-> "None"]
RenderableAndLineAnnotations(r, a) ==
  [type |-> "RenderableAndLineAnnotations", renderable |-> r, annotations |-> a]

\* isinstance(x, RenderableTreePart)
IsRenderableTreePart(x) ==
  x.type \notin {"str", "None", "RenderableAndLineAnnotations"}

\* subclasses of DeferringToChild that keep its render_to_text
DeferringTypes == {"BaseTaggedGroup", "BaseSpanGroup", "WithHoverTooltip"}

----------------------------------------------------------------------------
(* Layout measurements.  collapsed_width returns [raised, value]: raised   *)
(* is TRUE when the computation ends in ValueError.                        *)

Returns(v) == [raised |-> FALSE, value |-> v]
RaisesValueError == [raised |-> TRUE, value |-> 0]

RECURSIVE collapsed_width(_)
RECURSIVE newlines_in_expanded_parent(_)

RECURSIVE SumWidthsFrom(_, _, _)
\* sum(part.collapsed_width for part in children): the first child that
\* raises ends the sum
SumWidthsFrom(children, i, acc) ==
  IF i > Len(children) THEN Returns(acc)
  ELSE LET w == collapsed_width(children[i])
       IN IF w.raised THEN RaisesValueError
          ELSE SumWidthsFrom(children, i + 1, acc + w.value)

RECURSIVE SumNewlinesFrom(_, _, _)
\* sum(part.newlines_in_expanded_parent + extra for part in children)
SumNewlinesFrom(children, i, extra) ==
  IF i > Len(children) THEN 0
  ELSE newlines_in_expanded_parent(children[i]) + extra
       + SumNewlinesFrom(children, i + 1, extra)

\* a Text that measures a literal with a line break instead of raising
Mutant_Text_compute_collapsed_width(p) == Returns(Len(p.text))

Text_compute_collapsed_width(p) ==
  IF HasNewline(p.text) THEN RaisesValueError ELSE Returns(Len(p.text))

Text_compute_newlines_in_expanded_parent(p) == CountNewlines(p.text)

Siblings_compute_collapsed_width(p) == SumWidthsFrom(p.children, 1, 0)

Siblings_compute_newlines_in_expanded_parent(p) ==
  SumNewlinesFrom(p.children, 1, 0)

DeferringToChild_compute_collapsed_width(p) == collapsed_width(p.child)

DeferringToChild_compute_newlines_in_expanded_parent(p) ==
  newlines_in_expanded_parent(p.child)

FoldCondition_compute_collapsed_width(p) == collapsed_width(p.collapsed)

FoldCondition_compute_newlines_in_expanded_parent(p) ==
  newlines_in_expanded_parent(p.expanded)

\* a RoundtripCondition measured by its roundtrip branch
Mutant_RoundtripCondition_compute_collapsed_width(p) == collapsed_width(p.roundtrip)

RoundtripCondition_compute_collapsed_width(p) == collapsed_width(p.not_roundtrip)

RoundtripCondition_compute_newlines_in_expanded_parent(p) ==
  newlines_in_expanded_parent(p.not_roundtrip)

\* a SummarizableCondition measured by its detail branch
Mutant_SummarizableCondition_compute_collapsed_width(p) == collapsed_width(p.detail)

SummarizableCondition_compute_collapsed_width(p) == collapsed_width(p.summary)

SummarizableCondition_compute_newlines_in_expanded_parent(p) ==
  newlines_in_expanded_parent(p.detail)

OnSeparateLines_compute_collapsed_width(p) == SumWidthsFrom(p.children, 1, 0)

OnSeparateLines_compute_newlines_in_expanded_parent(p) ==
  SumNewlinesFrom(p.children, 1, 1) + 1

IndentedChildren_compute_collapsed_width(p) == SumWidthsFrom(p.children, 1, 0)

\* an IndentedChildren that forgets the line break after its last child
Mutant_IndentedChildren_compute_newlines_in_expanded_parent(p) ==
  SumNewlinesFrom(p.children, 1, 1)

IndentedChildren_compute_newlines_in_expanded_parent(p) ==
  SumNewlinesFrom(p.children, 1, 1) + 1

BaseBoxWithOutline_compute_collapsed_width(p) == collapsed_width(p.child)

BaseBoxWithOutline_compute_newlines_in_expanded_parent(p) ==
  2 + newlines_in_expanded_parent(p.child)

collapsed_width(p) ==
  CASE p.type \in {"EmptyPart", "VerticalSpace"} -> Returns(0)
    [] p.type = "Text" -> Text_compute_collapsed_width(p)
    [] p.type = "Siblings" -> Siblings_compute_collapsed_width(p)
    [] p.type \in DeferringTypes \cup {"ScopedSelectableAnnotation"} ->
         DeferringToChild_compute_collapsed_width(p)
    [] p.type = "FoldCondition" -> FoldCondition_compute_collapsed_width(p)
    [] p.type = "RoundtripCondition" -> RoundtripCondition_compute_collapsed_width(p)
    [] p.type = "SummarizableCondition" ->
         SummarizableCondition_compute_collapsed_width(p)
    [] p.type = "OnSeparateLines" -> OnSeparateLines_compute_collapsed_width(p)
    [] p.type = "IndentedChildren" -> IndentedChildren_compute_collapsed_width(p)
    [] p.type = "BaseBoxWithOutline" -> BaseBoxWithOutline_compute_collapsed_width(p)

newlines_in_expanded_parent(p) ==
  CASE p.type \in {"EmptyPart", "VerticalSpace"} -> 0
    [] p.type = "Text" -> Text_compute_newlines_in_expanded_parent(p)
    [] p.type = "Siblings" -> Siblings_compute_newlines_in_expanded_parent(p)
    [] p.type \in DeferringTypes \cup {"ScopedSelectableAnnotation"} ->
         DeferringToChild_compute_newlines_in_expanded_parent(p)
    [] p.type = "FoldCondition" -> FoldCondition_compute_newlines_in_expanded_parent(p)
    [] p.type = "RoundtripCondition" ->
         RoundtripCondition_compute_newlines_in_expanded_parent(p)
    [] p.type = "SummarizableCondition" ->
         SummarizableCondition_compute_newlines_in_expanded_parent(p)
    [] p.type = "OnSeparateLines" ->
         OnSeparateLines_compute_newlines_in_expanded_parent(p)
    [] p.type = "IndentedChildren" ->
         IndentedChildren_compute_newlines_in_expanded_parent(p)
    [] p.type = "BaseBoxWithOutline" ->
         BaseBoxWithOutline_compute_newlines_in_expanded_parent(p)

----------------------------------------------------------------------------
(* Text rendering.  A render_to_text call returns [out, raised, calls]:    *)
(* what it wrote to the stream, whether it ended in ValueError (what was   *)
(* written before stays written), and the render_to_text calls made, in    *)
(* order, each with its arguments and its depth below the outermost call.  *)

boxwidth == 40

Nothing == [out |-> <<>>, raised |-> FALSE, calls |-> <<>>]

\* stream.write(s), after the statements that gave r
Write(r, s) == IF r.raised THEN r ELSE [r EXCEPT !.out = @ \o s]

\* a call with result q, after the statements that gave r
Then(r, q) ==
  IF r.raised THEN r
  ELSE [out |-> r.out \o q.out, raised |-> q.raised, calls |-> r.calls \o q.calls]

TextCall(p, ep, ind, rt, ctx, d) ==
  [part |-> p, expanded_parent |-> ep, indent |-> ind, roundtrip_mode |-> rt,
   render_context |-> ctx, depth |-> d]

RECURSIVE render_to_text(_, _, _, _, _, _)

RECURSIVE RenderLinesFrom(_, _, _, _, _, _, _, _)
\* for part in children: stream.write(separator); part.render_to_text(...)
RenderLinesFrom(children, i, separator, ep, ind, rt, ctx, d) ==
  IF i > Len(children) THEN Nothing
  ELSE LET first == Then(Write(Nothing, separator),
                         render_to_text(children[i], ep, ind, rt, ctx, d))
       IN Then(first, RenderLinesFrom(children, i + 1, separator, ep, ind, rt, ctx, d))

Text_render_to_text(p, ep, ind, rt, ctx, d) ==
  IF HasNewline(p.text) /\ ~ep
  THEN [Nothing EXCEPT !.raised = TRUE]
  ELSE Write(Nothing, Join(<<NL>> \o Spaces(ind), Split(p.text)))

\* a Siblings that hands a dict of its own to its children
Mutant_Siblings_render_to_text(p, ep, ind, rt, ctx, d) ==
  RenderLinesFrom(p.children, 1, <<>>, ep, ind, rt, [siblings |-> p], d + 1)

Siblings_render_to_text(p, ep, ind, rt, ctx, d) ==
  RenderLinesFrom(p.children, 1, <<>>, ep, ind, rt, ctx, d + 1)

\* a WithHoverTooltip that writes its tooltip after its child
Mutant_DeferringToChild_render_to_text(p, ep, ind, rt, ctx, d) ==
  IF p.type = "WithHoverTooltip"
  THEN Write(render_to_text(p.child, ep, ind, rt, ctx, d + 1), p.tooltip)
  ELSE render_to_text(p.child, ep, ind, rt, ctx, d + 1)

DeferringToChild_render_to_text(p, ep, ind, rt, ctx, d) ==
  render_to_text(p.child, ep, ind, rt, ctx, d + 1)

\* a FoldCondition that renders the wrong branch
Mutant_FoldCondition_render_to_text(p, ep, ind, rt, ctx, d) ==
  IF ep THEN render_to_text(p.collapsed, ep, ind, rt, ctx, d + 1)
  ELSE render_to_text(p.expanded, ep, ind, rt, ctx, d + 1)

FoldCondition_render_to_text(p, ep, ind, rt, ctx, d) ==
  IF ep THEN render_to_text(p.expanded, ep, ind, rt, ctx, d + 1)
  ELSE render_to_text(p.collapsed, ep, ind, rt, ctx, d + 1)

RoundtripCondition_render_to_text(p, ep, ind, rt, ctx, d) ==
  IF rt THEN render_to_text(p.roundtrip, ep, ind, rt, ctx, d + 1)
  ELSE render_to_text(p.not_roundtrip, ep, ind, rt, ctx, d + 1)

SummarizableCondition_render_to_text(p, ep, ind, rt, ctx, d) ==
  IF ~ep /\ ~rt THEN render_to_text(p.summary, ep, ind, rt, ctx, d + 1)
  ELSE render_to_text(p.detail, ep, ind, rt, ctx, d + 1)

\* an OnSeparateLines that breaks the line before each child when collapsed too
Mutant_OnSeparateLines_render_to_text(p, ep, ind, rt, ctx, d) ==
  LET separator == <<NL>> \o Spaces(ind)
      body == RenderLinesFrom(p.children, 1, separator, ep, ind, rt, ctx, d + 1)
  IN IF ep THEN Write(body, <<NL>> \o Spaces(ind)) ELSE body

OnSeparateLines_render_to_text(p, ep, ind, rt, ctx, d) ==
  LET separator == IF ep THEN <<NL>> \o Spaces(ind) ELSE <<>>
      body == RenderLinesFrom(p.children, 1, separator, ep, ind, rt, ctx, d + 1)
  IN IF ep THEN Write(body, <<NL>> \o Spaces(ind)) ELSE body

\* an IndentedChildren that indents by four columns
Mutant_IndentedChildren_render_to_text(p, ep, ind, rt, ctx, d) ==
  LET next_indent == IF ep THEN ind + 4 ELSE ind
      separator == IF ep THEN <<NL>> \o Spaces(next_indent) ELSE <<>>
      body == RenderLinesFrom(p.children, 1, separator, ep, next_indent, rt, ctx, d + 1)
  IN IF ep THEN Write(body, <<NL>> \o Spaces(ind)) ELSE body

\* an IndentedChildren that does not return to the enclosing indent at its end
Mutant_IndentedChildren_render_to_text_NoEnd(p, ep, ind, rt, ctx, d) ==
  LET next_indent == IF ep THEN ind + 2 ELSE ind
      separator == IF ep THEN <<NL>> \o Spaces(next_indent) ELSE <<>>
  IN RenderLinesFrom(p.children, 1, separator, ep, next_indent, rt, ctx, d + 1)

IndentedChildren_render_to_text(p, ep, ind, rt, ctx, d) ==
  LET next_indent == IF ep THEN ind + 2 ELSE ind
      separator == IF ep THEN <<NL>> \o Spaces(next_indent) ELSE <<>>
      body == RenderLinesFrom(p.children, 1, separator, ep, next_indent, rt, ctx, d + 1)
  IN IF ep THEN Write(body, <<NL>> \o Spaces(ind)) ELSE body

\* a box that leaves out the line break after its top border
Mutant_BaseBoxWithOutline_render_to_text(p, ep, ind, rt, ctx, d) ==
  LET top == IF ep
             THEN Write(Write(Nothing,
                              <<NL>> \o Spaces(ind) \o <<"#", "U+256D">>
                                \o Repeat("U+2504", boxwidth) \o <<"U+256E">>),
                        <<NL>> \o Spaces(ind))
             ELSE Nothing
      body == Then(top, render_to_text(p.child, ep, ind, rt, ctx, d + 1))
  IN IF ep
     THEN Write(Write(body,
                      <<NL>> \o Spaces(ind) \o <<"#", "U+2570">>
                        \o Repeat("U+2504", boxwidth) \o <<"U+256F">>),
                <<NL>> \o Spaces(ind))
     ELSE body

BaseBoxWithOutline_render_to_text(p, ep, ind, rt, ctx, d) ==
  LET top == IF ep
             THEN Write(Write(Nothing,
                              <<NL>> \o Spaces(ind) \o <<"#", "U+256D">>
                                \o Repeat("U+2504", boxwidth) \o <<"U+256E", NL>>),
                        <<NL>> \o Spaces(ind))
             ELSE Nothing
      body == Then(top, render_to_text(p.child, ep, ind, rt, ctx, d + 1))
  IN IF ep
     THEN Write(Write(body,
                      <<NL>> \o Spaces(ind) \o <<"#", "U+2570">>
                        \o Repeat("U+2504", boxwidth) \o <<"U+256F">>),
                <<NL>> \o Spaces(ind))
     ELSE body

RECURSIVE CommentLinesFrom(_, _, _)
\* for line in lines: write the line as a comment, or a bare line break
CommentLinesFrom(lines, i, ind) ==
  IF i > Len(lines) THEN <<>>
  ELSE (IF lines[i] # <<>>
        THEN <<NL>> \o Spaces(ind) \o <<"#", SP>> \o lines[i]
        ELSE <<NL>>)
       \o CommentLinesFrom(lines, i + 1, ind)

\* an annotation that renders the child of its comment at its own indent
Mutant_ScopedSelectableAnnotation_render_to_text(p, ep, ind, rt, ctx, d) ==
  IF rt
  THEN IF ~ep THEN Nothing
       ELSE LET local_stream == render_to_text(p.child, ep, ind, rt, ctx, d + 1)
            IN IF local_stream.raised
               THEN [local_stream EXCEPT !.out = <<>>]
               ELSE [local_stream EXCEPT
                       !.out = CommentLinesFrom(Splitlines(local_stream.out), 1, ind)
                               \o <<NL>> \o Spaces(ind)]
  ELSE render_to_text(p.child, ep, ind, rt, ctx, d + 1)

ScopedSelectableAnnotation_render_to_text(p, ep, ind, rt, ctx, d) ==
  IF rt
  THEN IF ~ep THEN Nothing
       ELSE LET local_stream == render_to_text(p.child, ep, 0, rt, ctx, d + 1)
            IN IF local_stream.raised
               THEN [local_stream EXCEPT !.out = <<>>]
               ELSE [local_stream EXCEPT
                       !.out = CommentLinesFrom(Splitlines(local_stream.out), 1, ind)
                               \o <<NL>> \o Spaces(ind)]
  ELSE render_to_text(p.child, ep, ind, rt, ctx, d + 1)

render_to_text(p, ep, ind, rt, ctx, d) ==
  LET r ==
    CASE p.type \in {"EmptyPart", "VerticalSpace"} -> Nothing
      [] p.type = "Text" -> Text_render_to_text(p, ep, ind, rt, ctx, d)
      [] p.type = "Siblings" -> Siblings_render_to_text(p, ep, ind, rt, ctx, d)
      [] p.type \in DeferringTypes -> DeferringToChild_render_to_text(p, ep, ind, rt, ctx, d)
      [] p.type = "FoldCondition" -> FoldCondition_render_to_text(p, ep, ind, rt, ctx, d)
      [] p.type = "RoundtripCondition" ->
           RoundtripCondition_render_to_text(p, ep, ind, rt, ctx, d)
      [] p.type = "SummarizableCondition" ->
           SummarizableCondition_render_to_text(p, ep, ind, rt, ctx, d)
      [] p.type = "OnSeparateLines" -> OnSeparateLines_render_to_text(p, ep, ind, rt, ctx, d)
      [] p.type = "IndentedChildren" ->
           IndentedChildren_render_to_text(p, ep, ind, rt, ctx, d)
      [] p.type = "BaseBoxWithOutline" ->
           BaseBoxWithOutline_render_to_text(p, ep, ind, rt, ctx, d)
      [] p.type = "ScopedSelectableAnnotation" ->
           ScopedSelectableAnnotation_render_to_text(p, ep, ind, rt, ctx, d)
  IN [r EXCEPT !.calls = <<TextCall(p, ep, ind, rt, ctx, d)>> \o @]

----------------------------------------------------------------------------
(* HTML rendering.  A render_to_html call returns [out, calls]: what it    *)
(* wrote to the stream and the render_to_html calls made, in order.        *)

NoHtml == [out |-> <<>>, calls |-> <<>>]

\* stream.write(s), after the statements that gave r
WriteHtml(r, s) == [r EXCEPT !.out = @ \o s]

\* a call with result q, after the statements that gave r
ThenHtml(r, q) == [out |-> r.out \o q.out, calls |-> r.calls \o q.calls]

HtmlCall(p, abol, ctx, d) ==
  [part |-> p, at_beginning_of_line |-> abol, render_context |-> ctx, depth |-> d]

\* html_escaping.escape_html_attribute(text)
escape_html_attribute(text) == HtmlEscape(text)

RECURSIVE render_to_html(_, _, _, _)

\* stream.write(open); child.render_to_html(...); stream.write("</span>")
InSpan(open, child, abol, ctx, d) ==
  WriteHtml(ThenHtml(WriteHtml(NoHtml, open), render_to_html(child, abol, ctx, d)),
            <<"</span>">>)

\* a branch span that is written for an EmptyPart as well
Mutant_BranchSpan(class, branch, abol, ctx, d) ==
  InSpan(<<"<span class=\"" \o class \o "\">">>, branch, abol, ctx, d)

\* the span of one branch of a conditional part, left out for an EmptyPart
BranchSpan(class, branch, abol, ctx, d) ==
  IF branch.type # "EmptyPart"
  THEN InSpan(<<"<span class=\"" \o class \o "\">">>, branch, abol, ctx, d)
  ELSE NoHtml

RECURSIVE SiblingsHtmlFrom(_, _, _, _, _)

\* a loop that gives every child the at_beginning_of_line of the caller
Mutant_SiblingsHtmlFrom(children, i, abol, ctx, d) ==
  IF i > Len(children) THEN NoHtml
  ELSE ThenHtml(render_to_html(children[i], abol, ctx, d),
                SiblingsHtmlFrom(children, i + 1, abol, ctx, d))

\* for part in children: part.render_to_html(...); at_beginning_of_line = False
SiblingsHtmlFrom(children, i, abol, ctx, d) ==
  IF i > Len(children) THEN NoHtml
  ELSE ThenHtml(render_to_html(children[i], abol, ctx, d),
                SiblingsHtmlFrom(children, i + 1, FALSE, ctx, d))

RECURSIVE LinesHtmlFrom(_, _, _, _, _)
\* for part in children: each in its own span, at the beginning of its line
LinesHtmlFrom(children, i, open, ctx, d) ==
  IF i > Len(children) THEN NoHtml
  ELSE ThenHtml(InSpan(open, children[i], TRUE, ctx, d),
                LinesHtmlFrom(children, i + 1, open, ctx, d))

Text_render_to_html(p, abol, ctx, d) == WriteHtml(NoHtml, HtmlEscape(p.text))

Siblings_render_to_html(p, abol, ctx, d) ==
  SiblingsHtmlFrom(p.children, 1, abol, ctx, d + 1)

DeferringToChild_render_to_html(p, abol, ctx, d) ==
  render_to_html(p.child, abol, ctx, d + 1)

BaseSpanGroup_render_to_html(p, abol, ctx, d) ==
  InSpan(<<"<span class=\"" \o p.css_class \o "\">">>, p.child, abol, ctx, d + 1)

VerticalSpace_render_to_html(p, abol, ctx, d) ==
  WriteHtml(NoHtml, <<"<div style=\"height:">> \o escape_html_attribute(p.height)
                      \o <<"; width:0;\"></div>">>)

FoldCondition_render_to_html(p, abol, ctx, d) ==
  ThenHtml(BranchSpan("when_collapsed", p.collapsed, abol, ctx, d + 1),
           BranchSpan("when_expanded", p.expanded, abol, ctx, d + 1))

RoundtripCondition_render_to_html(p, abol, ctx, d) ==
  ThenHtml(BranchSpan("when_roundtrip", p.roundtrip, abol, ctx, d + 1),
           BranchSpan("when_not_roundtrip", p.not_roundtrip, abol, ctx, d + 1))

SummarizableCondition_render_to_html(p, abol, ctx, d) ==
  ThenHtml(BranchSpan("when_collapsed_and_not_roundtrip", p.summary, abol, ctx, d + 1),
           BranchSpan("when_expanded_or_roundtrip", p.detail, abol, ctx, d + 1))

OnSeparateLines_render_to_html(p, abol, ctx, d) ==
  WriteHtml(ThenHtml(WriteHtml(NoHtml, <<"<span class=\"separate_lines_children\">">>),
                     LinesHtmlFrom(p.children, 1,
                                   <<"<span class=\"separate_lines_child\">">>, ctx, d + 1)),
            <<"</span>">>)

IndentedChildren_render_to_html(p, abol, ctx, d) ==
  WriteHtml(ThenHtml(WriteHtml(NoHtml, <<"<span class=\"indented_children\">">>),
                     LinesHtmlFrom(p.children, 1,
                                   <<"<span class=\"indented_child\">">>, ctx, d + 1)),
            <<"</span>">>)

BaseBoxWithOutline_render_to_html(p, abol, ctx, d) ==
  WriteHtml(ThenHtml(WriteHtml(NoHtml,
                               <<"<span class=\"outerbox_for_outline\">"
                                 \o "<span class=\"box_with_outline "
                                 \o p.css_class \o "\">">>),
                     render_to_html(p.child, TRUE, ctx, d + 1)),
            <<"</span></span>">>)

WithHoverTooltip_render_to_html(p, abol, ctx, d) ==
  WriteHtml(ThenHtml(WriteHtml(NoHtml,
                               <<"<span class=\"has_hover_tooltip\" data-tooltip=\"">>
                                 \o escape_html_attribute(p.tooltip) \o <<"\">">>),
                     render_to_html(p.child, abol, ctx, d + 1)),
            <<"</span>">>)

ScopedSelectableAnnotation_render_to_html(p, abol, ctx, d) ==
  InSpan(<<"<span tabindex=\"-1\" class=\"scoped_unselectable\">">>, p.child, abol, ctx,
         d + 1)

render_to_html(p, abol, ctx, d) ==
  LET r ==
    CASE p.type = "EmptyPart" -> NoHtml
      [] p.type = "VerticalSpace" -> VerticalSpace_render_to_html(p, abol, ctx, d)
      [] p.type = "Text" -> Text_render_to_html(p, abol, ctx, d)
      [] p.type = "Siblings" -> Siblings_render_to_html(p, abol, ctx, d)
      [] p.type = "BaseTaggedGroup" -> DeferringToChild_render_to_html(p, abol, ctx, d)
      [] p.type = "BaseSpanGroup" -> BaseSpanGroup_render_to_html(p, abol, ctx, d)
      [] p.type = "FoldCondition" -> FoldCondition_render_to_html(p, abol, ctx, d)
      [] p.type = "RoundtripCondition" -> RoundtripCondition_render_to_html(p, abol, ctx, d)
      [] p.type = "SummarizableCondition" ->
           SummarizableCondition_render_to_html(p, abol, ctx, d)
      [] p.type = "OnSeparateLines" -> OnSeparateLines_render_to_html(p, abol, ctx, d)
      [] p.type = "IndentedChildren" -> IndentedChildren_render_to_html(p, abol, ctx, d)
      [] p.type = "BaseBoxWithOutline" -> BaseBoxWithOutline_render_to_html(p, abol, ctx, d)
      [] p.type = "WithHoverTooltip" -> WithHoverTooltip_render_to_html(p, abol, ctx, d)
      [] p.type = "ScopedSelectableAnnotation" ->
           ScopedSelectableAnnotation_render_to_html(p, abol, ctx, d)
  IN [r EXCEPT !.calls = <<HtmlCall(p, abol, ctx, d)>> \o @]

----------------------------------------------------------------------------
(* Style rules: html_setup_parts.  A CSSStyleRule is kept as the sequence  *)
(* of its blocks, each block as its selectors and the value it gives to    *)
(* `display` ("" when the block does not set it); other properties do not  *)
(* decide what is shown and are left out.                                  *)

\* HtmlContextForSetup.collapsed_selector and .roundtrip_selector
collapsed_selector == "collapsed_selector"
roundtrip_selector == "roundtrip_selector"

\* `.class`
Sel(class) == [class |-> class, inside |-> "", not_inside |-> "", pseudo |-> ""]
\* `{ancestor} .class`
Inside(ancestor, class) == [Sel(class) EXCEPT !.inside = ancestor]
\* `.class:not({ancestor} *)`
NotInside(class, ancestor) == [Sel(class) EXCEPT !.not_inside = ancestor]
\* `.class:pseudo`
Pseudo(class, pseudo) == [Sel(class) EXCEPT !.pseudo = pseudo]

Block(selectors, display) == [selectors |-> selectors, display |-> display]
CSSStyleRule(blocks) == [type |-> "CSSStyleRule", blocks |-> blocks]

RECURSIVE html_setup_parts(_)

RECURSIVE SetupPartsFrom(_, _, _)
\* functools.reduce(operator.or_, (part.html_setup_parts(...) for part in children), initial)
SetupPartsFrom(children, i, acc) ==
  IF i > Len(children) THEN acc
  ELSE SetupPartsFrom(children, i + 1, acc \cup html_setup_parts(children[i]))

Siblings_html_setup_parts(p) == SetupPartsFrom(p.children, 1, {})

DeferringToChild_html_setup_parts(p) == html_setup_parts(p.child)

\* the rule of the subclass, which only styles its own class
BaseSpanGroup_span_css_rule(p) == CSSStyleRule(<<Block({Sel(p.css_class)}, "")>>)

BaseSpanGroup_html_setup_parts(p) ==
  {BaseSpanGroup_span_css_rule(p)} \cup html_setup_parts(p.child)

Mutant_FoldCondition_html_setup_parts(p) ==
  {CSSStyleRule(<<Block({Sel("when_collapsed")}, "inline"),
                  Block({Inside(collapsed_selector, "when_collapsed")}, "none"),
                  Block({Sel("when_expanded")}, "inline"),
                  Block({Inside(collapsed_selector, "when_expanded")}, "none")>>)}
    \cup html_setup_parts(p.collapsed) \cup html_setup_parts(p.expanded)

FoldCondition_html_setup_parts(p) ==
  {CSSStyleRule(<<Block({Sel("when_collapsed")}, "none"),
                  Block({Inside(collapsed_selector, "when_collapsed")}, "inline"),
                  Block({Sel("when_expanded")}, "inline"),
                  Block({Inside(collapsed_selector, "when_expanded")}, "none")>>)}
    \cup html_setup_parts(p.collapsed) \cup html_setup_parts(p.expanded)

RoundtripCondition_html_setup_parts(p) ==
  {CSSStyleRule(<<Block({Sel("when_roundtrip")}, "none"),
                  Block({Inside(roundtrip_selector, "when_roundtrip")}, "inline"),
                  Block({Sel("when_not_roundtrip")}, "inline"),
                  Block({Inside(roundtrip_selector, "when_not_roundtrip")}, "none")>>)}
    \cup html_setup_parts(p.roundtrip) \cup html_setup_parts(p.not_roundtrip)

SummarizableCondition_html_setup_parts(p) ==
  {CSSStyleRule(<<
     Block({Sel("when_expanded_or_roundtrip")}, "none"),
     Block({NotInside("when_expanded_or_roundtrip", collapsed_selector),
            Inside(roundtrip_selector, "when_expanded_or_roundtrip")}, "inline"),
     Block({Sel("when_collapsed_and_not_roundtrip")}, "inline"),
     Block({NotInside("when_collapsed_and_not_roundtrip", collapsed_selector),
            Inside(roundtrip_selector, "when_collapsed_and_not_roundtrip")}, "none")>>)}
    \cup html_setup_parts(p.summary) \cup html_setup_parts(p.detail)

OnSeparateLines_html_setup_parts(p) ==
  SetupPartsFrom(p.children, 1,
    {CSSStyleRule(<<
       Block({NotInside("separate_lines_child", collapsed_selector)}, "block"),
       Block({NotInside("separate_lines_children", collapsed_selector)}, "block")>>)})

IndentedChildren_html_setup_parts(p) ==
  SetupPartsFrom(p.children, 1,
    {CSSStyleRule(<<
       Block({NotInside("indented_child", collapsed_selector)}, "block"),
       Block({NotInside("indented_children", collapsed_selector)}, "block")>>)})

\* the rule of the subclass, which only styles its own class
BaseBoxWithOutline_box_css_rule(p) == CSSStyleRule(<<Block({Sel(p.css_class)}, "")>>)

BaseBoxWithOutline_html_setup_parts(p) ==
  {CSSStyleRule(<<
     Block({Sel("outerbox_for_outline")}, "inline-block"),
     Block({Sel("box_with_outline")}, "inline-block"),
     Block({NotInside("box_with_outline", collapsed_selector),
            NotInside("outerbox_for_outline", collapsed_selector)}, "block")>>),
   BaseBoxWithOutline_box_css_rule(p)}
    \cup html_setup_parts(p.child)

WithHoverTooltip_html_setup_parts(p) ==
  {CSSStyleRule(<<Block({Sel("has_hover_tooltip")}, ""),
                  Block({Pseudo("has_hover_tooltip", ":hover::after")}, "block")>>)}
    \cup html_setup_parts(p.child)

ScopedSelectableAnnotation_html_setup_parts(p) ==
  {CSSStyleRule(<<Block({Pseudo("scoped_unselectable", ":not(:focus)")}, "")>>)}
    \cup html_setup_parts(p.child)

html_setup_parts(p) ==
  CASE p.type \in {"EmptyPart", "Text", "VerticalSpace"} -> {}
    [] p.type = "Siblings" -> Siblings_html_setup_parts(p)
    [] p.type = "BaseTaggedGroup" -> DeferringToChild_html_setup_parts(p)
    [] p.type = "BaseSpanGroup" -> BaseSpanGroup_html_setup_parts(p)
    [] p.type = "FoldCondition" -> FoldCondition_html_setup_parts(p)
    [] p.type = "RoundtripCondition" -> RoundtripCondition_html_setup_parts(p)
    [] p.type = "SummarizableCondition" -> SummarizableCondition_html_setup_parts(p)
    [] p.type = "OnSeparateLines" -> OnSeparateLines_html_setup_parts(p)
    [] p.type = "IndentedChildren" -> IndentedChildren_html_setup_parts(p)
    [] p.type = "BaseBoxWithOutline" -> BaseBoxWithOutline_html_setup_parts(p)
    [] p.type = "WithHoverTooltip" -> WithHoverTooltip_html_setup_parts(p)
    [] p.type = "ScopedSelectableAnnotation" ->
         ScopedSelectableAnnotation_html_setup_parts(p)

----------------------------------------------------------------------------
(* Builders *)

RECURSIVE SiblingsPartsFrom(_, _)
\* the loop of Siblings.build over its arguments
SiblingsPartsFrom(args, i) ==
  IF i > Len(args) THEN <<>>
  ELSE (CASE args[i].type = "str" -> <<Text(args[i].value)>>
          [] args[i].type = "Siblings" -> args[i].children
          [] args[i].type = "EmptyPart" -> <<>>
          [] OTHER -> <<args[i]>>)
       \o SiblingsPartsFrom(args, i + 1)

\* a Siblings.build that wraps the strings but keeps every argument
Mutant_Siblings_build(args) ==
  Siblings([i \in 1..Len(args) |->
              IF args[i].type = "str" THEN Text(args[i].value) ELSE args[i]])

\* Siblings.build(*args)
Siblings_build(args) == Siblings(SiblingsPartsFrom(args, 1))

RECURSIVE MainPartsFrom(_, _)
\* the parts collected by siblings_with_annotations
MainPartsFrom(args, i) ==
  IF i > Len(args) THEN <<>>
  ELSE (IF IsRenderableTreePart(args[i]) THEN <<args[i]>>
        ELSE IF args[i].type = "str" THEN <<Text(args[i].value)>>
        ELSE <<args[i].renderable>>)
       \o MainPartsFrom(args, i + 1)

RECURSIVE AnnotationsFrom(_, _)
\* the annotations collected by siblings_with_annotations
AnnotationsFrom(args, i) ==
  IF i > Len(args) THEN <<>>
  ELSE (IF args[i].type = "RenderableAndLineAnnotations"
           /\ args[i].annotations # None
        THEN <<args[i].annotations>>
        ELSE <<>>)
       \o AnnotationsFrom(args, i + 1)

\* siblings_with_annotations(*args, extra_annotations=extra_annotations)
siblings_with_annotations(args, extra_annotations) ==
  RenderableAndLineAnnotations(
    Siblings_build(MainPartsFrom(args, 1)),
    Siblings_build(AnnotationsFrom(args, 1) \o extra_annotations))

\* a line that shows its annotations when collapsed as well
Mutant_build_full_line_with_annotations(args) ==
  LET combined == siblings_with_annotations(args, <<>>)
  IN Siblings_build(<<combined.renderable, combined.annotations>>)

\* build_full_line_with_annotations(*args)
build_full_line_with_annotations(args) ==
  LET combined == siblings_with_annotations(args, <<>>)
  IN IF \/ combined.annotations = None
        \/ combined.annotations.type = "EmptyPart"
        \/ /\ combined.annotations.type = "Siblings"
           /\ combined.annotations.children = <<>>
     THEN combined.renderable
     ELSE Siblings_build(<<combined.renderable,
                           FoldCondition(EmptyPart, combined.annotations)>>)

\* OnSeparateLines.build(children)
OnSeparateLines_build(children) ==
  OnSeparateLines([i \in 1..Len(children) |->
                     build_full_line_with_annotations(<<children[i]>>)])

\* a delimiter that shows the trailing comma when collapsed as well
Mutant_Delimiter_TrailingComma(i, n, force_trailing_comma) ==
  IF i < n THEN Siblings_build(<<Str(<<",">>), FoldCondition(Text(<<SP>>), EmptyPart)>>)
  ELSE Text(<<",">>)

\* a delimiter that leaves out the space after an inner comma
Mutant_Delimiter_NoSpace(i, n, force_trailing_comma) ==
  IF i < n THEN Text(<<",">>)
  ELSE IF force_trailing_comma THEN Text(<<",">>)
  ELSE FoldCondition(EmptyPart, Text(<<",">>))

\* the delimiter IndentedChildren.build puts after child i of n
Delimiter(i, n, force_trailing_comma) ==
  IF i < n THEN Siblings_build(<<Str(<<",">>), FoldCondition(Text(<<SP>>), EmptyPart)>>)
  ELSE IF force_trailing_comma THEN Text(<<",">>)
  ELSE FoldCondition(EmptyPart, Text(<<",">>))

\* IndentedChildren.build(children, comma_separated, force_trailing_comma)
IndentedChildren_build(children, comma_separated, force_trailing_comma) ==
  IndentedChildren(
    [i \in 1..Len(children) |->
       IF comma_separated
       THEN build_full_line_with_annotations(
              <<children[i], Delimiter(i, Len(children), force_trailing_comma)>>)
       ELSE build_full_line_with_annotations(<<children[i]>>)])

----------------------------------------------------------------------------
(* Type registries: type_registries.py.  A registry is a dict from types   *)
(* to values, kept as a function; the types are a small class hierarchy    *)
(* with two abstract base classes that have virtual subclasses.            *)

MaxVirtualBases == 2

Classes == {"object", "Base", "Derived", "Abc1", "Abc2"}
AbstractBaseClasses == {"Abc1", "Abc2"}

\* candidate_type.__mro__ for: class Base; class Derived(Base);
\* class Abc1(abc.ABC); class Abc2(abc.ABC); any other class derives from
\* object alone
mro(T) ==
  CASE T = "object" -> <<"object">>
    [] T = "Base" -> <<"Base", "object">>
    [] T = "Derived" -> <<"Derived", "Base", "object">>
    [] T = "Abc1" -> <<"Abc1", "ABC", "object">>
    [] T = "Abc2" -> <<"Abc2", "ABC", "object">>
    [] OTHER -> <<T, "object">>

\* issubclass(T, base_class), given the pairs <<S, B>> made by B.register(S):
\* a class of the MRO of T is base_class or was registered with it
issubclass(T, base_class, registered) ==
  \E i \in 1..Len(mro(T)) :
    mro(T)[i] = base_class \/ <<mro(T)[i], base_class>> \in registered

\* the values of a registry
Handler(name) == [type |-> "handler", name |-> name]
Handlers == {Handler("h1"), Handler("h2")}

\* registry[key] = value
SetItem(dict, key, value) ==
  [k \in DOMAIN dict \cup {key} |-> IF k = key THEN value ELSE dict[k]]

RECURSIVE LookupInMroFrom(_, _, _)
\* for supertype in candidate_type.__mro__: if supertype in registry: return ...
LookupInMroFrom(dict, supertypes, i) ==
  IF i > Len(supertypes) THEN [found |-> FALSE, value |-> None]
  ELSE IF supertypes[i] \in DOMAIN dict
  THEN [found |-> TRUE, value |-> dict[supertypes[i]]]
  ELSE LookupInMroFrom(dict, supertypes, i + 1)

RECURSIVE LookupInVirtualFrom(_, _, _, _, _)
\* for base_class in VIRTUAL_BASE_CLASSES: if issubclass(...) and base_class in registry
LookupInVirtualFrom(dict, candidate, bases, registered, i) ==
  IF i > Len(bases) THEN [found |-> FALSE, value |-> None]
  ELSE IF issubclass(candidate, bases[i], registered) /\ bases[i] \in DOMAIN dict
  THEN [found |-> TRUE, value |-> dict[bases[i]]]
  ELSE LookupInVirtualFrom(dict, candidate, bases, registered, i + 1)

\* a lookup that asks the virtual base classes before the MRO
Mutant_lookup_by_mro(dict, candidate, bases, registered) ==
  LET virtual == LookupInVirtualFrom(dict, candidate, bases, registered, 1)
      concrete == LookupInMroFrom(dict, mro(candidate), 1)
  IN IF virtual.found THEN virtual.value
     ELSE IF concrete.found THEN concrete.value
     ELSE None

\* lookup_by_mro(registry, candidate_type), with the VIRTUAL_BASE_CLASSES and
\* the virtual subclass registrations in force
lookup_by_mro(dict, candidate, bases, registered) ==
  LET concrete == LookupInMroFrom(dict, mro(candidate), 1)
      virtual == LookupInVirtualFrom(dict, candidate, bases, registered, 1)
  IN IF concrete.found THEN concrete.value
     ELSE IF virtual.found THEN virtual.value
     ELSE None

----------------------------------------------------------------------------
(* Lazy setup: type_registries.py.  _LAZY_MODULE_SETUP_FUNCTIONS is kept   *)
(* as the sequence of its items <<module_name, setup_module>> in iteration *)
(* order; the setup attribute is "set_up_treescope" in every item.         *)

MaxUpdateCalls == 3

\* the key modules of _LAZY_MODULE_SETUP_FUNCTIONS
Modules == {"numpy", "jax", "penzai.core", "torch"}

\* _LAZY_MODULE_SETUP_FUNCTIONS as the module defines it
LazyModuleSetupFunctionsAtImport ==
  << <<"numpy", "numpy_support">>, <<"jax", "jax_support">>,
     <<"penzai.core", "penzai_core_support">>, <<"torch", "torch_support">> >>

\* dict.keys()
Keys(items) == {items[i][1] : i \in 1..Len(items)}

\* a del that leaves the item in the dict
Mutant_DelItem(items, key) == items

\* del dict[key]
DelItem(items, key) == SelectSeq(items, LAMBDA item : item[1] # key)

\* the type for which the setup function of a module adds support
SetupType(module_name) ==
  CASE module_name = "numpy" -> "numpy.ndarray"
    [] module_name = "jax" -> "jax.Array"
    [] module_name = "penzai.core" -> "penzai.core.NamedArray"
    [] module_name = "torch" -> "torch.Tensor"

ModuleTypes == {SetupType(module_name) : module_name \in Modules}

\* setup_fn() of a module that returns: it adds support for the module to
\* the registry
setup_fn(dict, module_name) ==
  SetItem(dict, SetupType(module_name), Handler(module_name))

\* the registries during a call of update_registries_for_imports
Registries(dict, items, invoked, exception) ==
  [registry |-> dict, items |-> items, setup_calls |-> invoked,
   raised |-> exception]

RECURSIVE UpdateFrom(_, _, _, _, _)
\* a setup function is deleted before it is called, and stays deleted when
\* it raises
Mutant_UpdateFrom(snapshot, i, imported, raising, st) ==
  IF i > Len(snapshot) THEN st
  ELSE LET module_name == snapshot[i][1]
           invoked == [st.setup_calls EXCEPT ![module_name] = @ + 1]
       IN IF module_name \notin imported
          THEN UpdateFrom(snapshot, i + 1, imported, raising, st)
          ELSE IF module_name \in raising
          THEN Registries(st.registry, DelItem(st.items, module_name), invoked,
                          module_name)
          ELSE UpdateFrom(snapshot, i + 1, imported, raising,
                          Registries(setup_fn(st.registry, module_name),
                                     DelItem(st.items, module_name),
                                     invoked, st.raised))

\* the loop of update_registries_for_imports from item i of the snapshot
\* tuple(_LAZY_MODULE_SETUP_FUNCTIONS.items()), where the setup functions of
\* the modules in raising raise
UpdateFrom(snapshot, i, imported, raising, st) ==
  IF i > Len(snapshot) THEN st
  ELSE LET module_name == snapshot[i][1]
           invoked == [st.setup_calls EXCEPT ![module_name] = @ + 1]
       IN IF module_name \notin imported
          THEN UpdateFrom(snapshot, i + 1, imported, raising, st)
          ELSE IF module_name \in raising
          THEN Registries(st.registry, st.items, invoked, module_name)
          ELSE UpdateFrom(snapshot, i + 1, imported, raising,
                          Registries(setup_fn(st.registry, module_name),
                                     DelItem(st.items, module_name),
                                     invoked, st.raised))

\* update_registries_for_imports()
update_registries_for_imports(dict, items, imported, invoked, raising) ==
  UpdateFrom(items, 1, imported, raising, Registries(dict, items, invoked, "None"))

----------------------------------------------------------------------------
(* Named arrays: named_axes_handlers.py.  A named array is a record of     *)
(* what the handler reads from it: its class, the outcome of check_valid,  *)
(* the name of its dtype, its shapes, the class of data_array, and what    *)
(* repr(named_array.unwrap()), safe_to_summarize(data_array) and           *)
(* summarize_array_data(data_array) return for it.                         *)

MaxAxes == 2

NotImplemented == [type |-> "NotImplemented"]

Digits == <<"0", "1", "2", "3", "4", "5", "6", "7", "8", "9">>

RECURSIVE Decimal(_)
\* f"{size}" of a size
Decimal(size) ==
  IF size < 10 THEN <<Digits[size + 1]>>
  ELSE Decimal(size \div 10) \o <<Digits[(size % 10) + 1]>>

\* isinstance(data_array, np.ndarray), isinstance(data_array, jax.Array) and
\* isinstance(data_array, jax.core.Tracer) by the class of data_array
IsNdarray(data_array) == data_array = "ndarray"
IsJaxArray(data_array) == data_array \in {"ArrayImpl", "DynamicJaxprTracer"}
IsTracer(data_array) == data_array = "DynamicJaxprTracer"

\* (summary, contained_type) and the calls made to compute it
Summarized(summary, contained_type, made) ==
  [value |-> <<summary, contained_type>>, calls |-> made]

\* contained_type of named_array_and_contained_type_summary
ContainedType(data_array) ==
  IF IsNdarray(data_array) THEN "numpy.ndarray"
  ELSE IF IsJaxArray(data_array) /\ ~IsTracer(data_array) THEN "jax.Array"
  ELSE data_array

RECURSIVE PositionalFrom(_, _)
\* for i, size in enumerate(named_array.positional_shape)
PositionalFrom(positional_shape, i) ==
  IF i > Len(positional_shape) THEN <<>>
  ELSE (IF i > 1 THEN <<",", SP>> ELSE <<>>)
       \o Decimal(positional_shape[i])
       \o PositionalFrom(positional_shape, i + 1)

RECURSIVE NamedFrom(_, _)
\* a loop that writes the separator of the later axes before the first too
Mutant_NamedFrom(named_shape, i) ==
  IF i > Len(named_shape) THEN <<>>
  ELSE <<",", SP>>
       \o named_shape[i][1] \o <<":">> \o Decimal(named_shape[i][2])
       \o NamedFrom(named_shape, i + 1)

\* for i, (name, size) in enumerate(named_array.named_shape.items())
NamedFrom(named_shape, i) ==
  IF i > Len(named_shape) THEN <<>>
  ELSE (IF i > 1 THEN <<",", SP>> ELSE <<SP>>)
       \o named_shape[i][1] \o <<":">> \o Decimal(named_shape[i][2])
       \o NamedFrom(named_shape, i + 1)

\* a summary that asks for the numeric summary whatever inspect_device_data is
Mutant_named_array_and_contained_type_summary(named_array, inspect) ==
  LET contained_type == ContainedType(named_array.data_array)
      summarize == IsJaxArray(named_array.data_array) /\ named_array.safe
  IN Summarized(
       named_array.dtype_name \o <<"(">>
       \o PositionalFrom(named_array.positional_shape, 1)
       \o (IF named_array.positional_shape # <<>> THEN <<SP, "|">>
           ELSE IF named_array.named_shape # <<>> THEN <<"|">>
           ELSE <<>>)
       \o NamedFrom(named_array.named_shape, 1)
       \o <<")">>
       \o (IF summarize THEN named_array.data_summary ELSE <<>>),
       contained_type,
       <<"get_dtype_name">>
       \o (IF IsJaxArray(named_array.data_array)
           THEN <<"safe_to_summarize">> ELSE <<>>)
       \o (IF summarize THEN <<"summarize_array_data">> ELSE <<>>))

\* named_array_and_contained_type_summary(named_array, inspect_device_data)
named_array_and_contained_type_summary(named_array, inspect) ==
  LET contained_type == ContainedType(named_array.data_array)
      try_repr == /\ named_array.class = "NamedArray"
                  /\ inspect
                  /\ named_array.named_shape = <<>>
      asked == inspect /\ IsJaxArray(named_array.data_array)
      summarize == asked /\ named_array.safe
  IN IF try_repr /\ ~HasNewline(named_array.repr)
     THEN Summarized(named_array.repr, contained_type, <<"unwrap", "repr">>)
     ELSE Summarized(
            named_array.dtype_name \o <<"(">>
            \o PositionalFrom(named_array.positional_shape, 1)
            \o (IF named_array.positional_shape # <<>> THEN <<SP, "|">>
                ELSE IF named_array.named_shape # <<>> THEN <<"|">>
                ELSE <<>>)
            \o NamedFrom(named_array.named_shape, 1)
            \o <<")">>
            \o (IF summarize THEN named_array.data_summary ELSE <<>>),
            contained_type,
            (IF try_repr THEN <<"unwrap", "repr">> ELSE <<>>)
            \o <<"get_dtype_name">>
            \o (IF asked THEN <<"safe_to_summarize">> ELSE <<>>)
            \o (IF summarize THEN <<"summarize_array_data">> ELSE <<>>))

\* an object that is no named array
OtherObject == [class |-> "dict"]

\* no call on node and no query of a part has been made
NothingHandled ==
  /\ inspect_device_data = FALSE
  /\ returned = None
  /\ part_foldables = <<>>
  /\ part_tags = {}

\* the value of handle_named_arrays, whether it raised, and the calls made
Handled(value, exception, made) ==
  [value |-> value, raised |-> exception, calls |-> made]

\* a handler that does not catch the ValueError of check_valid
Mutant_handle_named_arrays(object) ==
  IF object.class \in {"NamedArray", "NamedArrayView"}
  THEN IF ~object.valid
       THEN Handled(None, TRUE, <<"check_valid">>)
       ELSE Handled([type |-> "FoldableTreeNode",
                     main_thunk |-> [inspect_device_data |-> TRUE],
                     placeholder_thunk |-> [inspect_device_data |-> FALSE],
                     expand_state |-> "COLLAPSED"],
                    FALSE,
                    <<"check_valid", "build_field_children", "indented_children",
                      "maybe_defer_rendering", "build_custom_foldable_tree_node">>)
  ELSE Handled(NotImplemented, FALSE, <<>>)

\* handle_named_arrays(node, path, subtree_renderer): the label of the node
\* it builds is deferred, with _make_label(inspect_device_data=True) as the
\* main thunk and _make_label(inspect_device_data=False) as the placeholder
handle_named_arrays(object) ==
  IF object.class \in {"NamedArray", "NamedArrayView"}
  THEN IF ~object.valid
       THEN Handled(NotImplemented, FALSE, <<"check_valid">>)
       ELSE Handled([type |-> "FoldableTreeNode",
                     main_thunk |-> [inspect_device_data |-> TRUE],
                     placeholder_thunk |-> [inspect_device_data |-> FALSE],
                     expand_state |-> "COLLAPSED"],
                    FALSE,
                    <<"check_valid", "build_field_children", "indented_children",
                      "maybe_defer_rendering", "build_custom_foldable_tree_node">>)
  ELSE Handled(NotImplemented, FALSE, <<>>)

----------------------------------------------------------------------------
(* Tree queries: foldables_in_this_part and tags_in_this_part of the part  *)
(* types.  A foldable node is a part of its own type that reports itself.  *)

\* a foldable node, known by its label
FoldableTreeNode(label) == [type |-> "FoldableTreeNode", label |-> label]

\* the foldables and the tags that a foldable node reports: itself, and
\* no tag of its own
FoldableTreeNode_foldables_in_this_part(p) == <<p>>
FoldableTreeNode_tags_in_this_part(p) == {}

RECURSIVE foldables_in_this_part(_)

RECURSIVE ChainFoldablesFrom(_, _)
\* a chain that takes the children from the last to the first
Mutant_ChainFoldablesFrom(children, i) ==
  IF i > Len(children) THEN <<>>
  ELSE ChainFoldablesFrom(children, i + 1)
       \o foldables_in_this_part(children[i])

\* list(itertools.chain(*(part.foldables_in_this_part() for part in children)))
ChainFoldablesFrom(children, i) ==
  IF i > Len(children) THEN <<>>
  ELSE foldables_in_this_part(children[i])
       \o ChainFoldablesFrom(children, i + 1)

\* part.foldables_in_this_part()
foldables_in_this_part(p) ==
  CASE p.type \in {"EmptyPart", "Text", "VerticalSpace"} -> <<>>
    [] p.type = "FoldableTreeNode" -> FoldableTreeNode_foldables_in_this_part(p)
    [] p.type \in {"Siblings", "OnSeparateLines", "IndentedChildren"} ->
         ChainFoldablesFrom(p.children, 1)
    [] p.type \in {"BaseTaggedGroup", "BaseSpanGroup", "WithHoverTooltip",
                   "ScopedSelectableAnnotation", "BaseBoxWithOutline"} ->
         foldables_in_this_part(p.child)
    [] p.type = "FoldCondition" -> foldables_in_this_part(p.expanded)
    [] p.type = "RoundtripCondition" -> foldables_in_this_part(p.not_roundtrip)
    [] p.type = "SummarizableCondition" -> foldables_in_this_part(p.detail)

RECURSIVE tags_in_this_part(_)

RECURSIVE ReduceTagsFrom(_, _, _)
\* functools.reduce(operator.or_, (part.tags_in_this_part for part in
\* children), frozenset())
ReduceTagsFrom(children, i, acc) ==
  IF i > Len(children) THEN acc
  ELSE ReduceTagsFrom(children, i + 1, acc \cup tags_in_this_part(children[i]))

\* a fold condition that takes the tags of the branch used for sizing only
Mutant_FoldCondition_tags_in_this_part(p) == tags_in_this_part(p.expanded)

\* FoldCondition._compute_tags_in_this_part
FoldCondition_tags_in_this_part(p) ==
  tags_in_this_part(p.collapsed) \cup tags_in_this_part(p.expanded)

\* part.tags_in_this_part
tags_in_this_part(p) ==
  CASE p.type \in {"EmptyPart", "Text", "VerticalSpace"} -> {}
    [] p.type = "FoldableTreeNode" -> FoldableTreeNode_tags_in_this_part(p)
    [] p.type \in {"Siblings", "OnSeparateLines", "IndentedChildren"} ->
         ReduceTagsFrom(p.children, 1, {})
    [] p.type = "BaseTaggedGroup" -> p.tags \cup tags_in_this_part(p.child)
    [] p.type \in {"BaseSpanGroup", "WithHoverTooltip",
                   "ScopedSelectableAnnotation", "BaseBoxWithOutline"} ->
         tags_in_this_part(p.child)
    [] p.type = "FoldCondition" -> FoldCondition_tags_in_this_part(p)
    [] p.type = "RoundtripCondition" ->
         tags_in_this_part(p.roundtrip) \cup tags_in_this_part(p.not_roundtrip)
    [] p.type = "SummarizableCondition" ->
         tags_in_this_part(p.summary) \cup tags_in_this_part(p.detail)

----------------------------------------------------------------------------
(* The caller: builds a part step by step and measures or renders it *)

\* a text literal with a line break and a character that HTML escapes
MultiLine == <<"<", NL, "b">>

\* parts a construction starts from
FirstParts == {Text(<<"x">>), Text(MultiLine), EmptyPart, VerticalSpace(<<"1", "e", "m">>)}

\* parts given as the other argument of a constructor
ArgParts == {Text(<<"y">>), EmptyPart}

\* a line annotation
Comment == Text(<<SP, "#", "c">>)

CssClass == "color_and_border"
Tooltip == <<"t", "\"">>
Tag == "tag"

\* a fresh render context
EmptyDict == <<>>

Built(op, args, comma_separated, force_trailing_comma) ==
  [op |-> op, args |-> args, comma_separated |-> comma_separated,
   force_trailing_comma |-> force_trailing_comma]

NoResults ==
  /\ pc' = "build"
  /\ expanded_parent' = FALSE
  /\ indent' = 0
  /\ roundtrip_mode' = FALSE
  /\ at_beginning_of_line' = FALSE
  /\ render_context' = EmptyDict
  /\ stream' = <<>>
  /\ raised' = FALSE
  /\ calls' = <<>>
  /\ width' = 0
  /\ newlines' = 0
  /\ UNCHANGED <<registries, imports, named_arrays, queries>>

\* the registries as the module defines them, before any lookup
RegistriesAtImport ==
  /\ registry = EmptyDict
  /\ VIRTUAL_BASE_CLASSES = <<>>
  /\ virtual_subclasses = {}
  /\ candidate_type = "object"
  /\ result = None
  /\ sys_modules = {"numpy"}
  /\ LAZY_MODULE_SETUP_FUNCTIONS = LazyModuleSetupFunctionsAtImport
  /\ setup_calls = [module_name \in Modules |-> 0]
  /\ setup_raised = "None"
  /\ update_calls = 0

Init ==
  /\ part \in FirstParts
  /\ nodes = 1
  /\ built = Built("first", <<>>, FALSE, FALSE)
  /\ pc = "build"
  /\ expanded_parent = FALSE
  /\ indent = 0
  /\ roundtrip_mode = FALSE
  /\ at_beginning_of_line = FALSE
  /\ render_context = EmptyDict
  /\ stream = <<>>
  /\ raised = FALSE
  /\ calls = <<>>
  /\ width = 0
  /\ newlines = 0
  /\ RegistriesAtImport
  /\ node = OtherObject
  /\ NothingHandled

\* part = Constructor(part) for a constructor with one child
Wrap(op, p) ==
  /\ pc = "build"
  /\ nodes + 1 <= MaxNodes
  /\ part' = p
  /\ nodes' = nodes + 1
  /\ built' = Built(op, <<part>>, FALSE, FALSE)
  /\ NoResults

NewBaseTaggedGroup == Wrap("BaseTaggedGroup", BaseTaggedGroup(part, {Tag}))

NewBaseSpanGroup == Wrap("BaseSpanGroup", BaseSpanGroup(part, CssClass))

NewBaseBoxWithOutline == Wrap("BaseBoxWithOutline", BaseBoxWithOutline(part, CssClass))

NewWithHoverTooltip == Wrap("WithHoverTooltip", WithHoverTooltip(part, Tooltip))

NewScopedSelectableAnnotation ==
  Wrap("ScopedSelectableAnnotation", ScopedSelectableAnnotation(part))

\* part = Constructor(a, b), where one of a and b is the part built so far
Pair(op, a, b, p) ==
  /\ pc = "build"
  /\ nodes + 2 <= MaxNodes
  /\ part' = p
  /\ nodes' = nodes + 2
  /\ built' = Built(op, <<a, b>>, FALSE, FALSE)
  /\ NoResults

NewFoldCondition ==
  \E other \in ArgParts : \E ab \in {<<part, other>>, <<other, part>>} :
    Pair("FoldCondition", ab[1], ab[2], FoldCondition(ab[1], ab[2]))

NewRoundtripCondition ==
  \E other \in ArgParts : \E ab \in {<<part, other>>, <<other, part>>} :
    Pair("RoundtripCondition", ab[1], ab[2], RoundtripCondition(ab[1], ab[2]))

NewSummarizableCondition ==
  \E other \in ArgParts : \E ab \in {<<part, other>>, <<other, part>>} :
    Pair("SummarizableCondition", ab[1], ab[2], SummarizableCondition(ab[1], ab[2]))

CallSiblingsBuild ==
  \E ab \in {<<part, Text(<<"y">>)>>, <<part, EmptyPart>>, <<Str(<<"s">>), part>>} :
    Pair("Siblings.build", ab[1], ab[2], Siblings_build(ab))

\* the child lists handed to the line builders: the part built so far, with
\* or without a line annotation, alone or followed by a second child
ChildLists ==
  {<<first>> \o rest :
     first \in {part, RenderableAndLineAnnotations(part, Comment)},
     rest \in {<<>>, <<Text(<<"y">>)>>}}

CallOnSeparateLinesBuild ==
  \E children \in ChildLists :
    /\ pc = "build"
    /\ nodes + 2 <= MaxNodes
    /\ part' = OnSeparateLines_build(children)
    /\ nodes' = nodes + 2
    /\ built' = Built("OnSeparateLines.build", children, FALSE, FALSE)
    /\ NoResults

CallIndentedChildrenBuild ==
  \E children \in ChildLists :
    \E flags \in {<<FALSE, FALSE>>, <<TRUE, FALSE>>, <<TRUE, TRUE>>} :
      /\ pc = "build"
      /\ nodes + 2 <= MaxNodes
      /\ part' = IndentedChildren_build(children, flags[1], flags[2])
      /\ nodes' = nodes + 2
      /\ built' = Built("IndentedChildren.build", children, flags[1], flags[2])
      /\ NoResults

\* part.render_to_text(stream, expanded_parent=ep, indent=ind, roundtrip_mode=rt,
\*                     render_context={})
RenderToText ==
  \E ep \in BOOLEAN, rt \in BOOLEAN, ind \in 0..MaxIndent :
    LET r == render_to_text(part, ep, ind, rt, EmptyDict, 0)
    IN /\ pc = "build"
       /\ pc' = "render_to_text"
       /\ expanded_parent' = ep
       /\ indent' = ind
       /\ roundtrip_mode' = rt
       /\ render_context' = EmptyDict
       /\ stream' = r.out
       /\ raised' = r.raised
       /\ calls' = r.calls
       /\ at_beginning_of_line' = FALSE
       /\ width' = 0
       /\ newlines' = 0
       /\ UNCHANGED <<part, nodes, built, registries, imports, named_arrays, queries>>

\* part.render_to_html(stream, at_beginning_of_line=abol, render_context={})
RenderToHtml ==
  \E abol \in BOOLEAN :
    LET r == render_to_html(part, abol, EmptyDict, 0)
    IN /\ pc = "build"
       /\ pc' = "render_to_html"
       /\ at_beginning_of_line' = abol
       /\ render_context' = EmptyDict
       /\ stream' = r.out
       /\ raised' = FALSE
       /\ calls' = r.calls
       /\ expanded_parent' = FALSE
       /\ indent' = 0
       /\ roundtrip_mode' = FALSE
       /\ width' = 0
       /\ newlines' = 0
       /\ UNCHANGED <<part, nodes, built, registries, imports, named_arrays, queries>>

\* part.collapsed_width and part.newlines_in_expanded_parent
Measure ==
  LET w == collapsed_width(part)
  IN /\ pc = "build"
     /\ pc' = "measure"
     /\ width' = w.value
     /\ raised' = w.raised
     /\ newlines' = newlines_in_expanded_parent(part)
     /\ stream' = <<>>
     /\ calls' = <<>>
     /\ expanded_parent' = FALSE
     /\ indent' = 0
     /\ roundtrip_mode' = FALSE
     /\ at_beginning_of_line' = FALSE
     /\ render_context' = EmptyDict
     /\ UNCHANGED <<part, nodes, built, registries, imports, named_arrays, queries>>

Next ==
  \/ NewBaseTaggedGroup
  \/ NewBaseSpanGroup
  \/ NewBaseBoxWithOutline
  \/ NewWithHoverTooltip
  \/ NewScopedSelectableAnnotation
  \/ NewFoldCondition
  \/ NewRoundtripCondition
  \/ NewSummarizableCondition
  \/ CallSiblingsBuild
  \/ CallOnSeparateLinesBuild
  \/ CallIndentedChildrenBuild
  \/ RenderToText
  \/ RenderToHtml
  \/ Measure

Spec == Init /\ [][Next]_vars

----------------------------------------------------------------------------
(* The line layout caller: nests the line builders, Siblings.build and the *)
(* Siblings constructor up to MaxNesting deep, then renders the result to  *)
(* text or measures it                                                     *)

MaxNesting == 2

\* a second line annotation
Comment2 == Text(<<SP, "#", "d">>)

\* part = a builder applied to arguments made from the part built so far
Nest(op, args, comma_separated, force_trailing_comma, p) ==
  /\ pc = "build"
  /\ nodes <= MaxNesting
  /\ part' = p
  /\ nodes' = nodes + 1
  /\ built' = Built(op, args, comma_separated, force_trailing_comma)
  /\ NoResults

\* the child lists of a nested line builder
NestLists == {<<part>>, <<RenderableAndLineAnnotations(part, Comment), Text(<<"y">>)>>}

NestIndentedChildrenBuild ==
  \E children \in NestLists : \E comma_separated \in BOOLEAN :
    Nest("IndentedChildren.build", children, comma_separated, FALSE,
         IndentedChildren_build(children, comma_separated, FALSE))

NestOnSeparateLinesBuild ==
  \E children \in NestLists :
    Nest("OnSeparateLines.build", children, FALSE, FALSE,
         OnSeparateLines_build(children))

\* the arguments of one line: strings, parts and parts with line annotations
LineArgs ==
  {<<RenderableAndLineAnnotations(part, Comment), Str(<<",">>),
     RenderableAndLineAnnotations(Text(<<"y">>), Comment2)>>,
   <<RenderableAndLineAnnotations(part, None), Str(<<",">>)>>,
   <<RenderableAndLineAnnotations(part, Comment),
     RenderableAndLineAnnotations(Text(<<"y">>), EmptyPart)>>}

CallBuildFullLineWithAnnotations ==
  \E args \in LineArgs :
    Nest("build_full_line_with_annotations", args, FALSE, FALSE,
         build_full_line_with_annotations(args))

\* argument lists of strings and parts
SiblingsArgs ==
  {<<Str(<<"a">>), Text(<<"b">>), EmptyPart>>,
   <<EmptyPart, part, Str(<<"a">>)>>,
   <<part, part>>}

CallSiblingsBuildOfArgs ==
  \E args \in SiblingsArgs : Nest("Siblings.build", args, FALSE, FALSE, Siblings_build(args))

\* part = Siblings(children=(a, b)): the constructor, which keeps its children as given
NewSiblings ==
  \E other \in ArgParts :
    Nest("Siblings", <<part, other>>, FALSE, FALSE, Siblings(<<part, other>>))

NextLines ==
  \/ NestIndentedChildrenBuild
  \/ NestOnSeparateLinesBuild
  \/ CallBuildFullLineWithAnnotations
  \/ CallSiblingsBuildOfArgs
  \/ NewSiblings
  \/ RenderToText
  \/ Measure

\* the lines start from a text, with or without a line break, or from nothing
InitLines == Init /\ part \in {Text(<<"x">>), Text(MultiLine), EmptyPart}

SpecLines == InitLines /\ [][NextLines]_vars

----------------------------------------------------------------------------
(* The registry caller: fills a registry, extends VIRTUAL_BASE_CLASSES and *)
(* registers virtual subclasses, then looks a type up                      *)

\* the pairs <<S, B>> for which B.register(S) is called
VirtualPairs == {<<"Base", "Abc1">>, <<"Derived", "Abc2">>, <<"Base", "Abc2">>}

InitRegistry ==
  /\ part = EmptyPart
  /\ nodes = 1
  /\ built = Built("first", <<>>, FALSE, FALSE)
  /\ pc = "registry"
  /\ expanded_parent = FALSE
  /\ indent = 0
  /\ roundtrip_mode = FALSE
  /\ at_beginning_of_line = FALSE
  /\ render_context = EmptyDict
  /\ stream = <<>>
  /\ raised = FALSE
  /\ calls = <<>>
  /\ width = 0
  /\ newlines = 0
  /\ RegistriesAtImport
  /\ node = OtherObject
  /\ NothingHandled

\* the variables of the part caller
rendering == <<part, nodes, built, expanded_parent, indent, roundtrip_mode,
               at_beginning_of_line, render_context, stream, raised, calls, width,
               newlines>>

\* registry[key] = value
RegisterHandler ==
  \E key \in Classes, value \in Handlers :
    /\ pc = "registry"
    /\ registry' = SetItem(registry, key, value)
    /\ UNCHANGED <<pc, VIRTUAL_BASE_CLASSES, virtual_subclasses, candidate_type, result,
                   rendering, imports, named_arrays, queries>>

\* VIRTUAL_BASE_CLASSES.append(base_class)
AppendVirtualBaseClass ==
  \E base_class \in AbstractBaseClasses :
    /\ pc = "registry"
    /\ Len(VIRTUAL_BASE_CLASSES) < MaxVirtualBases
    /\ VIRTUAL_BASE_CLASSES' = Append(VIRTUAL_BASE_CLASSES, base_class)
    /\ UNCHANGED <<pc, registry, virtual_subclasses, candidate_type, result, rendering, imports, named_arrays, queries>>

\* base_class.register(subclass)
RegisterVirtualSubclass ==
  \E pair \in VirtualPairs :
    /\ pc = "registry"
    /\ virtual_subclasses' = virtual_subclasses \cup {pair}
    /\ UNCHANGED <<pc, registry, VIRTUAL_BASE_CLASSES, candidate_type, result, rendering, imports, named_arrays, queries>>

\* result = lookup_by_mro(registry, candidate_type)
LookupByMroOf(candidates) ==
  \E candidate \in candidates :
    /\ pc = "registry"
    /\ pc' = "lookup_by_mro"
    /\ candidate_type' = candidate
    /\ result' = lookup_by_mro(registry, candidate, VIRTUAL_BASE_CLASSES,
                               virtual_subclasses)
    /\ UNCHANGED <<registry, VIRTUAL_BASE_CLASSES, virtual_subclasses, rendering, imports, named_arrays, queries>>

LookupByMro == LookupByMroOf(Classes)

NextRegistry ==
  \/ RegisterHandler
  \/ AppendVirtualBaseClass
  \/ RegisterVirtualSubclass
  \/ LookupByMro

SpecRegistry == InitRegistry /\ [][NextRegistry]_vars

----------------------------------------------------------------------------
(* The importing caller: imports modules, calls                            *)
(* update_registries_for_imports, then looks a type of a module up         *)

InitImports == InitRegistry

\* import module_name
ImportModule ==
  \E module_name \in Modules :
    /\ pc = "registry"
    /\ module_name \notin sys_modules
    /\ sys_modules' = sys_modules \cup {module_name}
    /\ UNCHANGED <<pc, registries, rendering, LAZY_MODULE_SETUP_FUNCTIONS,
                   setup_calls, setup_raised, update_calls, named_arrays, queries>>

\* update_registries_for_imports(), where the setup functions of the
\* modules in raising raise
UpdateRegistriesForImports ==
  \E raising \in SUBSET Modules :
    LET after == update_registries_for_imports(
                   registry, LAZY_MODULE_SETUP_FUNCTIONS, sys_modules,
                   setup_calls, raising)
    IN /\ pc = "registry"
       /\ update_calls < MaxUpdateCalls
       /\ update_calls' = update_calls + 1
       /\ registry' = after.registry
       /\ LAZY_MODULE_SETUP_FUNCTIONS' = after.items
       /\ setup_calls' = after.setup_calls
       /\ setup_raised' = after.raised
       /\ UNCHANGED <<pc, VIRTUAL_BASE_CLASSES, virtual_subclasses, candidate_type,
                      result, rendering, sys_modules, named_arrays, queries>>

\* result = lookup_by_mro(registry, candidate_type) for a type of a module
LookupModuleType == LookupByMroOf(ModuleTypes)

NextImports ==
  \/ ImportModule
  \/ UpdateRegistriesForImports
  \/ LookupModuleType

SpecImports == InitImports /\ [][NextImports]_vars

----------------------------------------------------------------------------
(* Vocabulary of the properties below *)

ConditionalTypes == {"FoldCondition", "RoundtripCondition", "SummarizableCondition"}

\* the render calls the outermost call made itself, in order
DirectCalls == SelectSeq(calls, LAMBDA c : c.depth = 1)

\* the parts directly below p
ChildrenOf(p) ==
  CASE p.type \in {"Siblings", "OnSeparateLines", "IndentedChildren"} ->
         {p.children[i] : i \in 1..Len(p.children)}
    [] p.type \in DeferringTypes \cup {"ScopedSelectableAnnotation", "BaseBoxWithOutline"} ->
         {p.child}
    [] p.type = "FoldCondition" -> {p.collapsed, p.expanded}
    [] p.type = "RoundtripCondition" -> {p.roundtrip, p.not_roundtrip}
    [] p.type = "SummarizableCondition" -> {p.summary, p.detail}
    [] OTHER -> {}

RECURSIVE TextLiterals(_)
\* the strings of all Text parts in the tree p
TextLiterals(p) ==
  IF p.type = "Text" THEN {p.text}
  ELSE UNION {TextLiterals(c) : c \in ChildrenOf(p)}

\* what rendering q with the arguments of the last render_to_text call writes
OutputOf(q, ind) == render_to_text(q, expanded_parent, ind, roundtrip_mode, render_context, 1).out

----------------------------------------------------------------------------
(* C1: render_to_text of a conditional part renders exactly one of its two *)
(* branches, with the arguments it was given: FoldCondition its collapsed  *)
(* branch when expanded_parent is false and else its expanded branch,      *)
(* RoundtripCondition its roundtrip branch when roundtrip_mode is true and *)
(* else its not_roundtrip branch, SummarizableCondition its summary when   *)
(* neither expanded_parent nor roundtrip_mode holds and else its detail.   *)
C1_ExactlyOneBranchRendered ==
  (pc = "render_to_text" /\ part.type \in ConditionalTypes) =>
    LET branch ==
          CASE part.type = "FoldCondition" ->
                 IF ~expanded_parent THEN part.collapsed ELSE part.expanded
            [] part.type = "RoundtripCondition" ->
                 IF roundtrip_mode THEN part.roundtrip ELSE part.not_roundtrip
            [] part.type = "SummarizableCondition" ->
                 IF ~expanded_parent /\ ~roundtrip_mode THEN part.summary ELSE part.detail
    IN /\ Len(DirectCalls) = 1
       /\ DirectCalls[1] = TextCall(branch, expanded_parent, indent, roundtrip_mode,
                                    render_context, 1)
       /\ stream = OutputOf(branch, indent)

C1_Witness ==
  /\ pc = "render_to_text"
  /\ part.type = "SummarizableCondition"
  /\ part.summary = Text(<<"x">>)
  /\ part.detail = Text(<<"y">>)
  /\ ~expanded_parent
  /\ roundtrip_mode
  /\ stream = <<"y">>

----------------------------------------------------------------------------
(* C2: for a part whose text literals hold no line break, collapsed_width  *)
(* is the number of characters render_to_text writes when expanded_parent  *)
(* is false.  It fails in roundtrip mode; it holds when roundtrip_mode is  *)
(* false as well.                                                          *)
NoLineBreakLiterals == \A t \in TextLiterals(part) : ~HasNewline(t)

\* C2 as claimed: for every roundtrip_mode
C2_WidthIsCollapsedLength_AnyMode ==
  (pc = "render_to_text" /\ ~expanded_parent /\ NoLineBreakLiterals) =>
    /\ ~raised
    /\ collapsed_width(part) = Returns(Len(stream))

\* C2 as amended: with roundtrip_mode false
C2_WidthIsCollapsedLength ==
  (pc = "render_to_text" /\ ~expanded_parent /\ ~roundtrip_mode /\ NoLineBreakLiterals) =>
    /\ ~raised
    /\ collapsed_width(part) = Returns(Len(stream))

C2_Witness ==
  /\ pc = "render_to_text"
  /\ ~expanded_parent
  /\ ~roundtrip_mode
  /\ NoLineBreakLiterals
  /\ part.type = "IndentedChildren"
  /\ Len(part.children) = 2
  /\ Len(stream) = 4

----------------------------------------------------------------------------
(* C3: newlines_in_expanded_parent is the number of line breaks            *)
(* render_to_text writes when expanded_parent is true and roundtrip_mode   *)
(* is false.  It fails for BaseBoxWithOutline, which counts 2 line breaks  *)
(* and writes 5; it holds once 3 is added for every BaseBoxWithOutline     *)
(* that is rendered.                                                       *)
BoxesRendered ==
  Cardinality({i \in 1..Len(calls) : calls[i].part.type = "BaseBoxWithOutline"})

\* C3 as claimed
C3_NewlinesAreLineBreaksWritten_Boxes ==
  (pc = "render_to_text" /\ expanded_parent /\ ~roundtrip_mode) =>
    CountNewlines(stream) = newlines_in_expanded_parent(part)

\* C3 as amended
C3_NewlinesAreLineBreaksWritten ==
  (pc = "render_to_text" /\ expanded_parent /\ ~roundtrip_mode) =>
    /\ ~raised
    /\ CountNewlines(stream) = newlines_in_expanded_parent(part) + 3 * BoxesRendered

C3_Witness ==
  /\ pc = "render_to_text"
  /\ expanded_parent
  /\ ~roundtrip_mode
  /\ part.type = "IndentedChildren"
  /\ BoxesRendered = 1
  /\ CountNewlines(stream) = 7

----------------------------------------------------------------------------
(* Vocabulary for the lines of IndentedChildren.build *)

\* the part of a child given to a line builder, and its line annotation
RenderableOf(child) ==
  IF child.type = "RenderableAndLineAnnotations" THEN child.renderable ELSE child

AnnotationOf(child) ==
  IF child.type = "RenderableAndLineAnnotations" /\ child.annotations # None
  THEN child.annotations
  ELSE EmptyPart

\* the last render_to_text call was made on IndentedChildren.build(children, cs, ftc)
RenderedIndentedBuild(cs, ftc) ==
  /\ pc = "render_to_text"
  /\ ~raised
  /\ built.op = "IndentedChildren.build"
  /\ built.comma_separated = cs
  /\ built.force_trailing_comma = ftc

\* the indent of the children, and what is written before each child
ChildIndent == IF expanded_parent THEN indent + 2 ELSE indent

LineStart == IF expanded_parent THEN <<NL>> \o Spaces(ChildIndent) ELSE <<>>

\* what ends an expanded IndentedChildren
BlockEnd == IF expanded_parent THEN <<NL>> \o Spaces(indent) ELSE <<>>

\* the line of child i: the child, then after, then the annotation when expanded
LineOf(child, after) ==
  LineStart \o OutputOf(RenderableOf(child), ChildIndent) \o after
    \o (IF expanded_parent THEN OutputOf(AnnotationOf(child), ChildIndent) ELSE <<>>)

RECURSIVE LinesBefore(_, _, _)
\* the lines of children 1..k, each followed by after
LinesBefore(children, k, after) ==
  IF k = 0 THEN <<>>
  ELSE LinesBefore(children, k - 1, after) \o LineOf(children[k], after)

\* a comma, and one space only when collapsed
InnerComma == IF expanded_parent THEN <<",">> ELSE <<",", SP>>

----------------------------------------------------------------------------
(* C4: IndentedChildren.build(children, comma_separated=True,              *)
(* force_trailing_comma=False) on a non-empty child list writes no comma   *)
(* after the last child when rendered with expanded_parent false, and a    *)
(* comma right after the last child when rendered with expanded_parent     *)
(* true.                                                                   *)
C4_TrailingCommaOnlyWhenExpanded ==
  RenderedIndentedBuild(TRUE, FALSE) =>
    LET children == built.args
        n == Len(children)
    IN stream = LinesBefore(children, n - 1, InnerComma)
                  \o LineOf(children[n], IF expanded_parent THEN <<",">> ELSE <<>>)
                  \o BlockEnd

C4_Witness ==
  /\ RenderedIndentedBuild(TRUE, FALSE)
  /\ built.args = <<Text(<<"x">>), Text(<<"y">>)>>
  /\ ~expanded_parent
  /\ stream = <<"x", ",", SP, "y">>

----------------------------------------------------------------------------
(* C5: IndentedChildren.build([Text("x"), Text("y")], comma_separated=True)*)
(* rendered with expanded_parent true at indent 0 writes "\n  x,\n  y\n".  *)
(* It fails: y is followed by a comma, the output is "\n  x,\n  y,\n".     *)
XYExpandedAtIndent0 ==
  /\ RenderedIndentedBuild(TRUE, FALSE)
  /\ built.args = <<Text(<<"x">>), Text(<<"y">>)>>
  /\ expanded_parent
  /\ indent = 0

\* C5 as claimed
C5_ScenarioXY_NoCommaAfterY ==
  XYExpandedAtIndent0 => stream = <<NL, SP, SP, "x", ",", NL, SP, SP, "y", NL>>

\* C5 as amended
C5_ScenarioXY ==
  XYExpandedAtIndent0 => stream = <<NL, SP, SP, "x", ",", NL, SP, SP, "y", ",", NL>>

C5_Witness ==
  /\ XYExpandedAtIndent0
  /\ Len(stream) = 11

----------------------------------------------------------------------------
(* C6: IndentedChildren.build with comma_separated=True writes, after each *)
(* child that is not the last, a comma in both modes and one space more    *)
(* when collapsed; with force_trailing_comma=True the last child is        *)
(* followed by a comma in both modes; with comma_separated=False nothing   *)
(* is written between or after the children.                               *)
C6_CommaPolicy ==
  LET children == built.args
      n == Len(children)
      inner == LinesBefore(children, n - 1, InnerComma)
  IN /\ RenderedIndentedBuild(TRUE, TRUE) =>
          stream = inner \o LineOf(children[n], <<",">>) \o BlockEnd
     /\ RenderedIndentedBuild(TRUE, FALSE) =>
          SubSeq(stream, 1, Len(inner)) = inner
     /\ RenderedIndentedBuild(FALSE, FALSE) =>
          stream = LinesBefore(children, n, <<>>) \o BlockEnd

C6_Witness ==
  /\ RenderedIndentedBuild(TRUE, TRUE)
  /\ built.args = <<Text(<<"x">>), Text(<<"y">>)>>
  /\ ~expanded_parent
  /\ stream = <<"x", ",", SP, "y", ",">>

----------------------------------------------------------------------------
(* C7: collapsed_width of a Text whose string holds a line break raises    *)
(* ValueError, and so does collapsed_width of every part whose width sums  *)
(* or defers to a part whose collapsed_width raises; Text.render_to_text   *)
(* with expanded_parent false raises ValueError for such a literal before  *)
(* it writes anything, and nothing is rendered after it.                   *)

\* the parts the collapsed width of p sums or defers to
WidthChildrenOf(p) ==
  CASE p.type = "FoldCondition" -> {p.collapsed}
    [] p.type = "RoundtripCondition" -> {p.not_roundtrip}
    [] p.type = "SummarizableCondition" -> {p.summary}
    [] OTHER -> ChildrenOf(p)

\* call i of the last render rendered a literal with a line break collapsed
CollapsedLineBreakAt(i) ==
  /\ calls[i].part.type = "Text"
  /\ HasNewline(calls[i].part.text)
  /\ ~calls[i].expanded_parent

C7_LineBreakLiteralRaises ==
  /\ pc = "measure" =>
       raised = \/ part.type = "Text" /\ HasNewline(part.text)
                \/ \E c \in WidthChildrenOf(part) : collapsed_width(c).raised
  /\ pc = "render_to_text" =>
       /\ raised = \E i \in 1..Len(calls) : CollapsedLineBreakAt(i)
       /\ \A i \in 1..Len(calls) : CollapsedLineBreakAt(i) => i = Len(calls)
       /\ (Len(calls) = 1 /\ raised) => stream = <<>>

C7_Witness ==
  /\ pc = "measure"
  /\ raised
  /\ part.type = "BaseBoxWithOutline"
  /\ part.child.type = "Siblings"
  /\ Text(MultiLine) \in ChildrenOf(part.child)

----------------------------------------------------------------------------
(* C8: for sizing each conditional part defers to a fixed branch:          *)
(* FoldCondition takes collapsed_width from collapsed and                  *)
(* newlines_in_expanded_parent from expanded, RoundtripCondition takes     *)
(* both from not_roundtrip, SummarizableCondition takes both from detail.  *)
(* It fails for SummarizableCondition, whose collapsed_width is that of    *)
(* its summary branch.                                                     *)
Measured(w, n) ==
  /\ [raised |-> raised, value |-> width] = w
  /\ newlines = n

FoldAndRoundtripSizing ==
  /\ (pc = "measure" /\ part.type = "FoldCondition") =>
       Measured(collapsed_width(part.collapsed),
                newlines_in_expanded_parent(part.expanded))
  /\ (pc = "measure" /\ part.type = "RoundtripCondition") =>
       Measured(collapsed_width(part.not_roundtrip),
                newlines_in_expanded_parent(part.not_roundtrip))

\* C8 as claimed
C8_SizingBranches_DetailWidth ==
  /\ FoldAndRoundtripSizing
  /\ (pc = "measure" /\ part.type = "SummarizableCondition") =>
       Measured(collapsed_width(part.detail), newlines_in_expanded_parent(part.detail))

\* C8 as amended
C8_SizingBranches ==
  /\ FoldAndRoundtripSizing
  /\ (pc = "measure" /\ part.type = "SummarizableCondition") =>
       Measured(collapsed_width(part.summary), newlines_in_expanded_parent(part.detail))

C8_Witness ==
  /\ pc = "measure"
  /\ part = SummarizableCondition(Text(<<"y">>), Text(MultiLine))
  /\ ~raised
  /\ width = 1
  /\ newlines = 1

----------------------------------------------------------------------------
(* C9: BaseBoxWithOutline.render_to_text writes the top and the bottom     *)
(* border ('#', a corner, 40 dashes, a corner) around its child, with the  *)
(* line breaks that frame them, for expanded_parent true and false.  It    *)
(* fails for expanded_parent false, where only the child is written.       *)
TopBorder ==
  <<NL>> \o Spaces(indent) \o <<"#", "U+256D">> \o [i \in 1..40 |-> "U+2504"]
    \o <<"U+256E", NL, NL>> \o Spaces(indent)

BottomBorder ==
  <<NL>> \o Spaces(indent) \o <<"#", "U+2570">> \o [i \in 1..40 |-> "U+2504"]
    \o <<"U+256F", NL>> \o Spaces(indent)

RenderedBox == pc = "render_to_text" /\ part.type = "BaseBoxWithOutline" /\ ~raised

----------------------------------------------------------------------------
(* C10: render_to_html of a conditional part writes both of its branches,  *)
(* each in a span with the visibility class of the branch, whatever the    *)
(* expand or roundtrip mode; render_to_text renders one branch only.  It   *)
(* fails for a branch that is an EmptyPart, which gets no span.            *)

\* the classes of the first and of the second branch of a conditional part
BranchesOf(p) ==
  CASE p.type = "FoldCondition" ->
         <<[class |-> "when_collapsed", branch |-> p.collapsed],
           [class |-> "when_expanded", branch |-> p.expanded]>>
    [] p.type = "RoundtripCondition" ->
         <<[class |-> "when_roundtrip", branch |-> p.roundtrip],
           [class |-> "when_not_roundtrip", branch |-> p.not_roundtrip]>>
    [] p.type = "SummarizableCondition" ->
         <<[class |-> "when_collapsed_and_not_roundtrip", branch |-> p.summary],
           [class |-> "when_expanded_or_roundtrip", branch |-> p.detail]>>

SpanOf(b) ==
  <<"<span class=\"" \o b.class \o "\">">>
    \o render_to_html(b.branch, at_beginning_of_line, render_context, 1).out
    \o <<"</span>">>

SpanUnlessEmpty(b) == IF b.branch = EmptyPart THEN <<>> ELSE SpanOf(b)

OneBranchInText ==
  (pc = "render_to_text" /\ part.type \in ConditionalTypes) =>
    Cardinality({i \in 1..Len(calls) : calls[i].depth = 1}) = 1

\* C10 as claimed
C10_BothBranchesInHtml_EmptyToo ==
  /\ (pc = "render_to_html" /\ part.type \in ConditionalTypes) =>
       stream = SpanOf(BranchesOf(part)[1]) \o SpanOf(BranchesOf(part)[2])
  /\ OneBranchInText

\* C10 as amended
C10_BothBranchesInHtml ==
  /\ (pc = "render_to_html" /\ part.type \in ConditionalTypes) =>
       /\ stream = SpanUnlessEmpty(BranchesOf(part)[1])
                     \o SpanUnlessEmpty(BranchesOf(part)[2])
       /\ DirectCalls =
            SelectSeq(<<HtmlCall(BranchesOf(part)[1].branch, at_beginning_of_line,
                                 render_context, 1),
                        HtmlCall(BranchesOf(part)[2].branch, at_beginning_of_line,
                                 render_context, 1)>>,
                      LAMBDA c : c.part # EmptyPart)
  /\ OneBranchInText

C10_Witness ==
  /\ pc = "render_to_html"
  /\ part = FoldCondition(Text(<<"x">>), Text(<<"y">>))
  /\ stream = <<"<span class=\"when_collapsed\">", "x", "</span>",
                "<span class=\"when_expanded\">", "y", "</span>">>

----------------------------------------------------------------------------
(* C11: for each conditional part and each ambient mode (enclosing         *)
(* foldable collapsed or expanded, roundtrip mode on or off), the style    *)
(* rules of html_setup_parts leave exactly one branch class displayed, the *)
(* other gets display: none, and the displayed branch is the one that      *)
(* render_to_text renders in that mode.                                    *)

\* the blocks of the rules, each with the rule it is in and its place there
BlocksOf(rules) ==
  UNION {{[rule |-> r, at |-> i] : i \in 1..Len(r.blocks)} : r \in rules}

\* a selector applies to an element of the class that is inside a collapsed
\* ancestor iff `collapsed`, and inside a roundtrip ancestor iff `roundtrip`
Matches(sel, class, collapsed, roundtrip) ==
  /\ sel.class = class
  /\ sel.pseudo = ""
  /\ sel.inside = collapsed_selector => collapsed
  /\ sel.inside = roundtrip_selector => roundtrip
  /\ sel.not_inside = collapsed_selector => ~collapsed
  /\ sel.not_inside = roundtrip_selector => ~roundtrip

Specificity(sel) ==
  1 + (IF sel.inside = "" THEN 0 ELSE 1) + (IF sel.not_inside = "" THEN 0 ELSE 1)

\* the specificities with which a block applies to the element
Applies(b, class, collapsed, roundtrip) ==
  {Specificity(sel) : sel \in {s \in b.rule.blocks[b.at].selectors :
                                 Matches(s, class, collapsed, roundtrip)}}

\* the values the cascade can give to `display`: those of the applying
\* blocks that set it and that no other applying block overrides (a higher
\* specificity wins, then the later block of the same rule)
Display(rules, class, collapsed, roundtrip) ==
  LET setting == {b \in BlocksOf(rules) :
                    /\ b.rule.blocks[b.at].display # ""
                    /\ Applies(b, class, collapsed, roundtrip) # {}}
      Best(b) == CHOOSE s \in Applies(b, class, collapsed, roundtrip) :
                   \A t \in Applies(b, class, collapsed, roundtrip) : t <= s
      Overrides(c, b) ==
        \/ Best(c) > Best(b)
        \/ Best(c) = Best(b) /\ c.rule = b.rule /\ c.at > b.at
  IN {b.rule.blocks[b.at].display :
        b \in {b \in setting : \A c \in setting : ~Overrides(c, b)}}

\* the branches of the conditional part the rules leave displayed
DisplayedBranches ==
  {i \in 1..2 : Display(html_setup_parts(part), BranchesOf(part)[i].class,
                        ~expanded_parent, roundtrip_mode) = {"inline"}}
HiddenBranches ==
  {i \in 1..2 : Display(html_setup_parts(part), BranchesOf(part)[i].class,
                        ~expanded_parent, roundtrip_mode) = {"none"}}

C11_DisplayedBranchIsTextBranch ==
  (pc = "render_to_text" /\ part.type \in ConditionalTypes) =>
    /\ Cardinality(DisplayedBranches) = 1
    /\ HiddenBranches = {1, 2} \ DisplayedBranches
    /\ \A i \in DisplayedBranches :
         DirectCalls = <<TextCall(BranchesOf(part)[i].branch, expanded_parent, indent,
                                  roundtrip_mode, render_context, 1)>>

C11_Witness ==
  /\ pc = "render_to_text"
  /\ part = SummarizableCondition(Text(<<"x">>), Text(<<"y">>))
  /\ ~expanded_parent
  /\ roundtrip_mode
  /\ DisplayedBranches = {2}
  /\ HiddenBranches = {1}
  /\ stream = <<"y">>

----------------------------------------------------------------------------
(* C12: in expanded text rendering from indent 0, each child of an         *)
(* IndentedChildren nested d deep starts on a line of its own after        *)
(* exactly 2 * d spaces, and the IndentedChildren ends with a line break   *)
(* and the 2 * (d - 1) spaces of the enclosing indent; OnSeparateLines     *)
(* does the same at the indent it is given; in collapsed rendering neither *)
(* writes a separator or changes the indent.                               *)

\* the calls of the trace that call number i is nested in
Ancestors(i) ==
  {j \in 1..(i - 1) :
     /\ calls[j].depth < calls[i].depth
     /\ \A k \in (j + 1)..i : calls[k].depth > calls[j].depth}

\* how many IndentedChildren enclose the part of call number i
IndentedDepth(i) ==
  Cardinality({j \in Ancestors(i) : calls[j].part.type = "IndentedChildren"})

\* call number i is inside a ScopedSelectableAnnotation that renders its child
\* as a comment, which starts again from indent 0
InRoundtripAnnotation(i) ==
  /\ roundtrip_mode
  /\ \E j \in Ancestors(i) : calls[j].part.type = "ScopedSelectableAnnotation"

LineBuilderTypes == {"IndentedChildren", "OnSeparateLines"}

\* the indent a line builder called with c gives to its children
IndentOfChildren(c) ==
  IF c.part.type = "IndentedChildren" /\ c.expanded_parent THEN c.indent + 2 ELSE c.indent

RECURSIVE LayoutFrom(_, _, _)
\* the children of call c from the i-th on, each on a line of its own when expanded
LayoutFrom(c, i, ind) ==
  IF i > Len(c.part.children) THEN <<>>
  ELSE (IF c.expanded_parent THEN <<NL>> \o Spaces(ind) ELSE <<>>)
       \o render_to_text(c.part.children[i], c.expanded_parent, ind, c.roundtrip_mode,
                         c.render_context, 0).out
       \o LayoutFrom(c, i + 1, ind)

\* what a line builder called with c has to write
LayoutOf(c) ==
  LayoutFrom(c, 1, IndentOfChildren(c))
    \o (IF c.expanded_parent THEN <<NL>> \o Spaces(c.indent) ELSE <<>>)

C12_LinesAndIndent ==
  (pc = "render_to_text" /\ ~raised) =>
    \A i \in 1..Len(calls) :
      /\ calls[i].expanded_parent = expanded_parent
      /\ ~InRoundtripAnnotation(i) =>
           calls[i].indent = indent + (IF expanded_parent THEN 2 * IndentedDepth(i) ELSE 0)
      /\ calls[i].part.type \in LineBuilderTypes =>
           render_to_text(calls[i].part, calls[i].expanded_parent, calls[i].indent,
                          calls[i].roundtrip_mode, calls[i].render_context, 0).out
             = LayoutOf(calls[i])

C12_Witness ==
  /\ pc = "render_to_text"
  /\ expanded_parent
  /\ indent = 0
  /\ part = IndentedChildren_build(
              <<IndentedChildren_build(<<Text(<<"x">>)>>, FALSE, FALSE)>>, FALSE, FALSE)
  /\ stream = <<NL, SP, SP, NL, SP, SP, SP, SP, "x", NL, SP, SP, NL>>

----------------------------------------------------------------------------
(* C13: the part made by build_full_line_with_annotations writes the main  *)
(* renderables of all its arguments first, in argument order, and then the *)
(* line annotations of all its arguments, in argument order; so does each  *)
(* line of OnSeparateLines.build and of IndentedChildren.build, where the  *)
(* comma delimiter counts as a main renderable.  The annotations are       *)
(* written only when expanded_parent is true.  When no argument carries an *)
(* annotation the result is the main renderables alone, with no            *)
(* FoldCondition added for annotations.                                    *)

\* the main renderable of an argument of a line: a string becomes a Text
MainOf(arg) ==
  IF arg.type = "str" THEN Text(arg.value) ELSE RenderableOf(arg)

\* the line annotation of an argument of a line, EmptyPart when it has none
LineAnnotationOf(arg) ==
  IF arg.type = "str" THEN EmptyPart ELSE AnnotationOf(arg)

RECURSIVE MainsWritten(_, _, _)
\* what the main renderables of args[1..k] write at indent ind
MainsWritten(args, k, ind) ==
  IF k = 0 THEN <<>>
  ELSE MainsWritten(args, k - 1, ind) \o OutputOf(MainOf(args[k]), ind)

RECURSIVE AnnotationsWritten(_, _, _)
\* what the line annotations of args[1..k] write at indent ind when expanded
AnnotationsWritten(args, k, ind) ==
  IF ~expanded_parent \/ k = 0 THEN <<>>
  ELSE AnnotationsWritten(args, k - 1, ind) \o OutputOf(LineAnnotationOf(args[k]), ind)

\* a full line of args at indent ind
FullLine(args, ind) ==
  MainsWritten(args, Len(args), ind) \o AnnotationsWritten(args, Len(args), ind)

\* the arguments of line i of a line builder called with children
LineArgsOf(children, i) ==
  IF built.op = "IndentedChildren.build" /\ built.comma_separated
  THEN <<children[i], Delimiter(i, Len(children), built.force_trailing_comma)>>
  ELSE <<children[i]>>

RECURSIVE FullLinesBefore(_, _, _)
\* lines 1..k of a line builder, each started by a line break when expanded
FullLinesBefore(children, k, ind) ==
  IF k = 0 THEN <<>>
  ELSE FullLinesBefore(children, k - 1, ind)
       \o (IF expanded_parent THEN <<NL>> \o Spaces(ind) ELSE <<>>)
       \o FullLine(LineArgsOf(children, k), ind)

C13_MainsThenAnnotations ==
  /\ (pc = "render_to_text" /\ ~raised /\ built.op = "build_full_line_with_annotations") =>
       stream = FullLine(built.args, indent)
  /\ (pc = "render_to_text" /\ ~raised
        /\ built.op \in {"OnSeparateLines.build", "IndentedChildren.build"}) =>
       stream = FullLinesBefore(built.args, Len(built.args),
                                IF built.op = "IndentedChildren.build"
                                THEN ChildIndent ELSE indent)
                  \o BlockEnd
  /\ (/\ built.op = "build_full_line_with_annotations"
      /\ \A i \in 1..Len(built.args) : LineAnnotationOf(built.args[i]) = EmptyPart) =>
       part = Siblings_build([i \in 1..Len(built.args) |-> MainOf(built.args[i])])

C13_Witness ==
  /\ pc = "render_to_text"
  /\ expanded_parent
  /\ built.op = "build_full_line_with_annotations"
  /\ built.args = <<RenderableAndLineAnnotations(Text(<<"x">>), Comment), Str(<<",">>),
                    RenderableAndLineAnnotations(Text(<<"y">>), Comment2)>>
  /\ stream = <<"x", ",", "y", SP, "#", "c", SP, "#", "d">>

----------------------------------------------------------------------------
(* C14: ScopedSelectableAnnotation.render_to_text writes exactly what its  *)
(* child writes when roundtrip_mode is false; writes nothing when          *)
(* roundtrip_mode is true and expanded_parent is false; and when both are  *)
(* true it writes every line of the child's rendering (made from indent 0) *)
(* on a line of its own, after the indent and the comment marker "# ",     *)
(* and then a line break and the indent.  The last part fails for the      *)
(* empty lines of the child's rendering, which are written as a bare line  *)
(* break, without indent and marker.                                       *)

RenderedAnnotation ==
  pc = "render_to_text" /\ part.type = "ScopedSelectableAnnotation"

\* the child's rendering that is turned into a comment
ChildRendering ==
  render_to_text(part.child, expanded_parent, 0, roundtrip_mode, render_context, 1)

RECURSIVE CommentedBefore(_, _, _)
\* lines 1..k as comment lines at the indent; bare tells whether an empty
\* line is written as a line break alone
CommentedBefore(lines, k, bare) ==
  IF k = 0 THEN <<>>
  ELSE CommentedBefore(lines, k - 1, bare)
       \o (IF bare /\ lines[k] = <<>> THEN <<NL>>
           ELSE <<NL>> \o Spaces(indent) \o <<"#", SP>> \o lines[k])

AnnotationOutsideComment ==
  /\ (RenderedAnnotation /\ ~roundtrip_mode) =>
       /\ stream = OutputOf(part.child, indent)
       /\ raised = render_to_text(part.child, expanded_parent, indent, roundtrip_mode,
                                  render_context, 1).raised
  /\ (RenderedAnnotation /\ roundtrip_mode /\ ~expanded_parent) =>
       /\ stream = <<>>
       /\ ~raised
       /\ DirectCalls = <<>>

AnnotationAsComment(bare) ==
  (RenderedAnnotation /\ roundtrip_mode /\ expanded_parent /\ ~raised) =>
    stream = CommentedBefore(Splitlines(ChildRendering.out),
                             Len(Splitlines(ChildRendering.out)), bare)
               \o <<NL>> \o Spaces(indent)

----------------------------------------------------------------------------
(* C15: WithHoverTooltip drops its tooltip in text: for every              *)
(* expanded_parent, indent and roundtrip_mode its render_to_text writes    *)
(* exactly what its child writes, and its collapsed_width and              *)
(* newlines_in_expanded_parent are those of its child; render_to_html      *)
(* writes the child inside a span that carries the tooltip as its          *)
(* data-tooltip attribute.                                                 *)

ChildHtml == render_to_html(part.child, at_beginning_of_line, render_context, 1).out

C15_TooltipOnlyInMarkup ==
  part.type = "WithHoverTooltip" =>
    /\ pc = "render_to_text" =>
         /\ stream = OutputOf(part.child, indent)
         /\ raised = render_to_text(part.child, expanded_parent, indent, roundtrip_mode,
                                    render_context, 1).raised
         /\ DirectCalls[1] = TextCall(part.child, expanded_parent, indent, roundtrip_mode,
                                      render_context, 1)
    /\ pc = "measure" =>
         /\ width = collapsed_width(part.child).value
         /\ raised = collapsed_width(part.child).raised
         /\ newlines = newlines_in_expanded_parent(part.child)
    /\ pc = "render_to_html" =>
         /\ Len(stream) > Len(ChildHtml) + 3
         /\ stream[1] = "<span class=\"has_hover_tooltip\" data-tooltip=\""
         /\ SubSeq(stream, Len(stream) - Len(ChildHtml) - 1, Len(stream))
              = <<"\">">> \o ChildHtml \o <<"</span>">>

C15_Witness ==
  /\ pc = "render_to_text"
  /\ part = WithHoverTooltip(Text(<<"x">>), Tooltip)
  /\ expanded_parent
  /\ stream = <<"x">>

----------------------------------------------------------------------------
(* C16: Siblings.build(args) makes a Siblings whose children are, in       *)
(* argument order, a Text for each string, the children of each Siblings   *)
(* argument, and every other part except EmptyPart; so the children of the *)
(* result contain no EmptyPart and no Siblings.  Siblings.build("a",       *)
(* Text("b"), EmptyPart()) has two children, collapsed_width 2 and the     *)
(* text output "ab".  The children of a Siblings argument are taken as     *)
(* they are, so the result is free of EmptyPart and Siblings only when the *)
(* children of its Siblings arguments are.                                 *)

RECURSIVE NormalizedBefore(_, _)
\* what arguments 1..k contribute to the children of the result
NormalizedBefore(args, k) ==
  IF k = 0 THEN <<>>
  ELSE NormalizedBefore(args, k - 1)
       \o (IF args[k].type = "str" THEN <<Text(args[k].value)>>
           ELSE IF args[k].type = "Siblings" THEN args[k].children
           ELSE IF args[k] = EmptyPart THEN <<>>
           ELSE <<args[k]>>)

\* no EmptyPart and no Siblings among the children
Flat(children) ==
  \A i \in 1..Len(children) : children[i].type \notin {"EmptyPart", "Siblings"}

ScenarioArgs == <<Str(<<"a">>), Text(<<"b">>), EmptyPart>>

SiblingsBuilt ==
  built.op = "Siblings.build" =>
    /\ part = Siblings(NormalizedBefore(built.args, Len(built.args)))
    /\ built.args = ScenarioArgs =>
         /\ Len(part.children) = 2
         /\ pc = "measure" => (width = 2 /\ ~raised)
         /\ pc = "render_to_text" => (stream = <<"a", "b">> /\ ~raised)

\* C16 as claimed
C16_SiblingsBuildNormalizes_AnyArguments ==
  /\ SiblingsBuilt
  /\ built.op = "Siblings.build" => Flat(part.children)

\* C16 as amended
C16_SiblingsBuildNormalizes ==
  /\ SiblingsBuilt
  /\ (/\ built.op = "Siblings.build"
      /\ \A i \in 1..Len(built.args) :
           built.args[i].type = "Siblings" => Flat(built.args[i].children)) =>
       Flat(part.children)

C16_Witness ==
  /\ pc = "measure"
  /\ built.op = "Siblings.build"
  /\ built.args = ScenarioArgs
  /\ part = Siblings(<<Text(<<"a">>), Text(<<"b">>)>>)
  /\ width = 2

----------------------------------------------------------------------------
(* C17: Siblings.render_to_html renders its children in order; the first   *)
(* child gets the at_beginning_of_line of the caller, every later child    *)
(* gets at_beginning_of_line = False.                                      *)

\* the at_beginning_of_line child i of a Siblings has to get
LeadingFor(i) == i = 1 /\ at_beginning_of_line

RECURSIVE SiblingsHtmlBefore(_, _)
\* what children 1..k write
SiblingsHtmlBefore(children, k) ==
  IF k = 0 THEN <<>>
  ELSE SiblingsHtmlBefore(children, k - 1)
       \o render_to_html(children[k], LeadingFor(k), render_context, 1).out

C17_OnlyFirstChildLeads ==
  (pc = "render_to_html" /\ part.type = "Siblings") =>
    /\ DirectCalls = [i \in 1..Len(part.children) |->
                        HtmlCall(part.children[i], LeadingFor(i), render_context, 1)]
    /\ stream = SiblingsHtmlBefore(part.children, Len(part.children))

C17_Witness ==
  /\ pc = "render_to_html"
  /\ at_beginning_of_line
  /\ part = Siblings(<<Text(<<"x">>), Text(<<"y">>)>>)
  /\ Len(DirectCalls) = 2
  /\ DirectCalls[1].at_beginning_of_line
  /\ ~DirectCalls[2].at_beginning_of_line
  /\ stream = <<"x", "y">>

----------------------------------------------------------------------------
(* C19: render_to_text with expanded_parent false either raises ValueError *)
(* or writes no line break, whatever the part and the other arguments,     *)
(* also for a part whose newlines_in_expanded_parent is positive.          *)
C19_CollapsedTextHasNoLineBreak ==
  (pc = "render_to_text" /\ ~expanded_parent) => (raised \/ ~HasNewline(stream))

C19_Witness ==
  /\ pc = "render_to_text"
  /\ ~expanded_parent
  /\ ~raised
  /\ newlines_in_expanded_parent(part) = 5
  /\ part.type = "BaseBoxWithOutline"
  /\ stream = <<"x", "y">>

----------------------------------------------------------------------------
(* C20: lookup_by_mro(registry, T) returns the registry value of the first *)
(* type of the MRO of T (T itself first) that is a key of the registry;    *)
(* only when no type of the MRO is a key, the value of the first entry of  *)
(* VIRTUAL_BASE_CLASSES, in list order, that T is a subclass of and that   *)
(* is a key of the registry; and None otherwise.  The call leaves the      *)
(* registry as it was.                                                     *)

\* the places in the MRO of the candidate type that are keys of the registry
MroKeys ==
  {i \in 1..Len(mro(candidate_type)) : mro(candidate_type)[i] \in DOMAIN registry}

\* the places in VIRTUAL_BASE_CLASSES of the base classes of the candidate
\* type that are keys of the registry
VirtualKeys ==
  {i \in 1..Len(VIRTUAL_BASE_CLASSES) :
     /\ issubclass(candidate_type, VIRTUAL_BASE_CLASSES[i], virtual_subclasses)
     /\ VIRTUAL_BASE_CLASSES[i] \in DOMAIN registry}

Least(S) == CHOOSE i \in S : \A j \in S : i <= j

\* the value the lookup of the candidate type has to return
ValueByMro ==
  IF MroKeys # {} THEN registry[mro(candidate_type)[Least(MroKeys)]]
  ELSE IF VirtualKeys # {} THEN registry[VIRTUAL_BASE_CLASSES[Least(VirtualKeys)]]
  ELSE None

C20_LookupByMro ==
  [][pc' = "lookup_by_mro" => (result' = ValueByMro' /\ registry' = registry)]_vars

C20_Witness ==
  /\ pc = "lookup_by_mro"
  /\ candidate_type = "Derived"
  /\ DOMAIN registry = {"Abc1", "Abc2"}
  /\ registry["Abc1"] # registry["Abc2"]
  /\ VIRTUAL_BASE_CLASSES = <<"Abc1", "Abc2">>
  /\ virtual_subclasses = {<<"Derived", "Abc2">>}
  /\ result = registry["Abc2"]

----------------------------------------------------------------------------
(* The named array caller: hands an object to handle_named_arrays and runs *)
(* a thunk of the label, or summarizes a valid named array directly        *)

\* sizes of axes, and the names of the named axes in mapping order
Sizes == {2, 10}
AxisNames == << <<"b">>, <<"a">>, <<"c">> >>

PositionalShapes == UNION {[1..n -> Sizes] : n \in 0..MaxAxes}

NamedShapes ==
  UNION {{[i \in 1..n |-> <<AxisNames[i], sizes[i]>>] : sizes \in [1..n -> Sizes]}
         : n \in 0..MaxAxes}

NamedArrays ==
  [class : {"NamedArray", "NamedArrayView"},
   valid : BOOLEAN,
   dtype_name : {<<"f", "3", "2">>},
   positional_shape : PositionalShapes,
   named_shape : NamedShapes,
   data_array : {"ndarray", "ArrayImpl", "DynamicJaxprTracer", "ShapeDtypeStruct"},
   repr : {<<"7">>, <<"[", NL, "]">>},
   safe : BOOLEAN,
   data_summary : {<<SP, "~", "1">>}]

InitNamed ==
  /\ part = EmptyPart
  /\ nodes = 1
  /\ built = Built("first", <<>>, FALSE, FALSE)
  /\ pc = "registry"
  /\ expanded_parent = FALSE
  /\ indent = 0
  /\ roundtrip_mode = FALSE
  /\ at_beginning_of_line = FALSE
  /\ render_context = EmptyDict
  /\ stream = <<>>
  /\ raised = FALSE
  /\ calls = <<>>
  /\ width = 0
  /\ newlines = 0
  /\ RegistriesAtImport
  /\ node \in NamedArrays \cup {OtherObject}
  /\ NothingHandled

\* handle_named_arrays(node, path, subtree_renderer)
HandleNamedArrays ==
  /\ pc = "registry"
  /\ pc' = "handle_named_arrays"
  /\ returned' = handle_named_arrays(node)
  /\ UNCHANGED <<node, inspect_device_data, registries, rendering, imports, queries>>

\* the deferred label runs one of its thunks: _make_label(inspect_device_data)
MakeLabel ==
  \E thunk \in {"main_thunk", "placeholder_thunk"} :
    /\ pc = "handle_named_arrays"
    /\ returned.value # NotImplemented
    /\ pc' = "named_array_and_contained_type_summary"
    /\ inspect_device_data' = returned.value[thunk].inspect_device_data
    /\ returned' = named_array_and_contained_type_summary(
                     node, returned.value[thunk].inspect_device_data)
    /\ UNCHANGED <<node, registries, rendering, imports, queries>>

\* named_array_and_contained_type_summary(node, inspect_device_data)
SummarizeNamedArray ==
  \E inspect \in BOOLEAN :
    /\ pc = "registry"
    /\ node \in NamedArrays
    /\ node.valid
    /\ pc' = "named_array_and_contained_type_summary"
    /\ inspect_device_data' = inspect
    /\ returned' = named_array_and_contained_type_summary(node, inspect)
    /\ UNCHANGED <<node, registries, rendering, imports, queries>>

NextNamed ==
  \/ HandleNamedArrays
  \/ MakeLabel
  \/ SummarizeNamedArray

SpecNamed == InitNamed /\ [][NextNamed]_vars

----------------------------------------------------------------------------
(* The tree caller: builds a part that holds foldable nodes and tagged     *)
(* groups, then asks for its foldables and its tags                        *)

\* parts given as the other argument of a constructor: a foldable node, and
\* a fold condition with a tagged foldable node in its collapsed branch
TreeArgs ==
  {FoldableTreeNode(<<"g">>),
   FoldCondition(BaseTaggedGroup(FoldableTreeNode(<<"c">>), {"collapsed"}),
                 FoldableTreeNode(<<"e">>))}

InitTree ==
  /\ Init
  /\ part \in {Text(<<"x">>), EmptyPart}

\* part = FoldableTreeNode(label), around nothing
NewFoldableTreeNode ==
  /\ part = EmptyPart
  /\ Wrap("FoldableTreeNode", FoldableTreeNode(<<"f">>))

\* part = Constructor(a, b) for a conditional part
TreeCondition ==
  \E other \in TreeArgs : \E ab \in {<<part, other>>, <<other, part>>} :
    \/ Pair("FoldCondition", ab[1], ab[2], FoldCondition(ab[1], ab[2]))
    \/ Pair("RoundtripCondition", ab[1], ab[2], RoundtripCondition(ab[1], ab[2]))
    \/ Pair("SummarizableCondition", ab[1], ab[2],
            SummarizableCondition(ab[1], ab[2]))

\* part = Constructor(children=(a, b)) for a part with a list of children
TreeChildren ==
  \E other \in TreeArgs : \E ab \in {<<part, other>>, <<other, part>>} :
    \/ Pair("Siblings", ab[1], ab[2], Siblings(ab))
    \/ Pair("OnSeparateLines", ab[1], ab[2], OnSeparateLines(ab))
    \/ Pair("IndentedChildren", ab[1], ab[2], IndentedChildren(ab))

\* part.foldables_in_this_part() and part.tags_in_this_part
Query ==
  /\ pc = "build"
  /\ pc' = "query"
  /\ part_foldables' = foldables_in_this_part(part)
  /\ part_tags' = tags_in_this_part(part)
  /\ UNCHANGED <<part, nodes, built, expanded_parent, indent, roundtrip_mode,
                 at_beginning_of_line, render_context, stream, raised, calls,
                 width, newlines, registries, imports, named_arrays>>

NextTree ==
  \/ NewFoldableTreeNode
  \/ NewBaseTaggedGroup
  \/ NewBaseSpanGroup
  \/ NewBaseBoxWithOutline
  \/ NewWithHoverTooltip
  \/ NewScopedSelectableAnnotation
  \/ TreeCondition
  \/ TreeChildren
  \/ Query

SpecTree == InitTree /\ [][NextTree]_vars

----------------------------------------------------------------------------
(* C21: lookup_by_mro first runs the pending lazy setup functions, so the  *)
(* lookup of a type of an imported module whose setup function has not run *)
(* yet finds the entry that the setup function registers.                  *)

\* the modules that are imported and whose setup function is still in
\* _LAZY_MODULE_SETUP_FUNCTIONS
PendingSetups == sys_modules \cap Keys(LAZY_MODULE_SETUP_FUNCTIONS)

C21_LookupRunsPendingSetup ==
  \A module_name \in Modules :
    (/\ pc = "lookup_by_mro"
     /\ candidate_type = SetupType(module_name)
     /\ module_name \in sys_modules)
    => result = Handler(module_name)

----------------------------------------------------------------------------
(* C22: over any sequence of update_registries_for_imports calls and       *)
(* imports, a setup function is invoked at most once, only in a call made  *)
(* while its key module is in sys.modules; once called its entry is        *)
(* removed, and the entries of modules not imported stay as they are.      *)

\* the item of a key module in the dict, <<>> when there is none
ItemOf(items, module_name) ==
  SelectSeq(items, LAMBDA item : item[1] = module_name)

----------------------------------------------------------------------------
(* C29: when a setup function raises during update_registries_for_imports, *)
(* the exception reaches the caller, the entry of the raising module stays *)
(* in the dict, the entries processed earlier in the call stay removed and *)
(* the later entries are neither invoked nor removed.                      *)

\* position of a key module in a sequence of items
IndexOf(items, module_name) ==
  CHOOSE i \in 1..Len(items) : items[i][1] = module_name

C29_RaisingSetupStops ==
  [][(update_calls' = update_calls + 1 /\ setup_raised' # "None") =>
       LET snapshot == LAZY_MODULE_SETUP_FUNCTIONS
           after == Keys(LAZY_MODULE_SETUP_FUNCTIONS')
           k == IndexOf(snapshot, setup_raised')
       IN /\ setup_raised' \in Keys(snapshot) \cap sys_modules
          /\ setup_raised' \in after
          /\ setup_calls'[setup_raised'] = setup_calls[setup_raised'] + 1
          /\ \A j \in 1..Len(snapshot) :
               LET module_name == snapshot[j][1]
               IN /\ (j < k /\ module_name \in sys_modules) =>
                       /\ module_name \notin after
                       /\ setup_calls'[module_name] = setup_calls[module_name] + 1
                  /\ (j > k \/ module_name \notin sys_modules) =>
                       /\ ItemOf(LAZY_MODULE_SETUP_FUNCTIONS', module_name)
                            = <<snapshot[j]>>
                       /\ setup_calls'[module_name] = setup_calls[module_name]
                       /\ SetupType(module_name) \notin DOMAIN registry'
    ]_vars

\* the setup function of jax raised in a call that had run the one of numpy
\* and left the one of torch, which is imported, alone; an earlier call had
\* met the raising setup function already
C29_Witness ==
  /\ setup_raised = "jax"
  /\ setup_calls["jax"] = 2
  /\ "numpy" \notin Keys(LAZY_MODULE_SETUP_FUNCTIONS)
  /\ "torch" \in PendingSetups
  /\ setup_calls["torch"] = 0

----------------------------------------------------------------------------
(* C23: when the one-line repr is not used, the summary is the dtype name  *)
(* and the shape in parentheses: the positional sizes joined by ", ", a    *)
(* "|" exactly when one of the two shapes is not empty, the named axes in  *)
(* mapping order as name:size joined by ", ", then ")" and the optional    *)
(* numeric summary.                                                        *)

\* the one-line repr is what the summary call returns
OneLineReprApplies ==
  /\ node.class = "NamedArray"
  /\ inspect_device_data
  /\ node.named_shape = <<>>
  /\ ~HasNewline(node.repr)

\* the decimal numerals of the sizes of the axes
SizeText(size) ==
  CASE size = 2 -> <<"2">>
    [] size = 10 -> <<"1", "0">>

PositionalText ==
  Join(<<",", SP>>,
       [i \in 1..Len(node.positional_shape) |-> SizeText(node.positional_shape[i])])

NamedText ==
  Join(<<",", SP>>,
       [i \in 1..Len(node.named_shape) |->
          node.named_shape[i][1] \o <<":">> \o SizeText(node.named_shape[i][2])])

\* the shape between the parentheses: the bar is set off by a space from each
\* side that is not empty
ShapeText ==
  IF node.positional_shape = <<>> /\ node.named_shape = <<>> THEN <<>>
  ELSE PositionalText
       \o (IF node.positional_shape # <<>> THEN <<SP>> ELSE <<>>)
       \o <<"|">>
       \o (IF node.named_shape # <<>> THEN <<SP>> ELSE <<>>)
       \o NamedText

C23_SummaryForm ==
  (pc = "named_array_and_contained_type_summary" /\ ~OneLineReprApplies) =>
    \E numeric \in {<<>>, node.data_summary} :
      returned.value[1]
        = node.dtype_name \o <<"(">> \o ShapeText \o <<")">> \o numeric

\* f32(2, 10 | b:10, a:2) with the numeric summary, from the main thunk of
\* the label of a view
C23_Witness ==
  /\ pc = "named_array_and_contained_type_summary"
  /\ node.class = "NamedArrayView"
  /\ inspect_device_data
  /\ node.positional_shape = <<2, 10>>
  /\ node.named_shape = << <<AxisNames[1], 10>>, <<AxisNames[2], 2>> >>
  /\ returned.value[1]
       = <<"f", "3", "2", "(", "2", ",", SP, "1", "0", SP, "|", SP, "b", ":",
           "1", "0", ",", SP, "a", ":", "2", ")", SP, "~", "1">>

----------------------------------------------------------------------------
(* C24: handle_named_arrays does not raise because of an invalid node: for *)
(* a NamedArray or NamedArrayView whose check_valid() fails, and for any   *)
(* object that is neither, it returns NotImplemented and builds no summary *)

C24_InvalidNodeNotImplemented ==
  pc = "handle_named_arrays" =>
    /\ ~returned.raised
    /\ (node.class \notin {"NamedArray", "NamedArrayView"} \/ ~node.valid)
         = (returned.value = NotImplemented)
    /\ returned.value = NotImplemented =>
         \A i \in 1..Len(returned.calls) : returned.calls[i] = "check_valid"
    /\ node.class \notin {"NamedArray", "NamedArrayView"} => returned.calls = <<>>

\* an invalid NamedArrayView was handed to the handler
C24_Witness ==
  /\ pc = "handle_named_arrays"
  /\ node.class = "NamedArrayView"
  /\ ~node.valid
  /\ returned.value = NotImplemented

----------------------------------------------------------------------------
(* C28: with inspect_device_data false the summary never unwraps or reprs  *)
(* the array and never calls safe_to_summarize or summarize_array_data,    *)
(* and depends only on the dtype, the two shapes and the class of          *)
(* data_array; the numeric summary is appended only when                   *)
(* inspect_device_data is true, data_array is a jax.Array and it is safe   *)
(* to summarize.                                                           *)

\* the calls that look at the data of the array
DeviceCalls == {"unwrap", "repr", "safe_to_summarize", "summarize_array_data"}

\* the named arrays with the dtype, the shapes and the class of data_array
\* of node
SameShapeAndType ==
  {[node EXCEPT !.class = class, !.repr = repr, !.safe = safe] :
     class \in {"NamedArray", "NamedArrayView"},
     repr \in {<<"7">>, <<"[", NL, "]">>},
     safe \in BOOLEAN}

\* the summary ends with the numeric summary of the data
EndsWithNumeric ==
  LET summary == returned.value[1]
      n == Len(node.data_summary)
  IN /\ Len(summary) >= n
     /\ SubSeq(summary, Len(summary) - n + 1, Len(summary)) = node.data_summary

C28_PlaceholderReadsNoData ==
  pc = "named_array_and_contained_type_summary" =>
    /\ ~inspect_device_data =>
         /\ \A i \in 1..Len(returned.calls) : returned.calls[i] \notin DeviceCalls
         /\ \A other \in SameShapeAndType :
              named_array_and_contained_type_summary(other, FALSE).value
                = returned.value
    /\ (EndsWithNumeric
          \/ \E i \in 1..Len(returned.calls) :
               returned.calls[i] = "summarize_array_data")
         => (/\ inspect_device_data
             /\ IsJaxArray(node.data_array)
             /\ node.safe)

\* the placeholder summary of a scalar NamedArray on a jax.Array that is safe
\* to summarize and has a one-line repr
C28_Witness ==
  /\ pc = "named_array_and_contained_type_summary"
  /\ ~inspect_device_data
  /\ node.class = "NamedArray"
  /\ node.named_shape = <<>>
  /\ node.positional_shape = <<>>
  /\ node.repr = <<"7">>
  /\ node.data_array = "ArrayImpl"
  /\ node.safe
  /\ returned.value = << <<"f", "3", "2", "(", ")">>, "jax.Array" >>

----------------------------------------------------------------------------
(* C25: foldables_in_this_part lists the descendant foldables in the order *)
(* of the children, left to right, for Siblings, OnSeparateLines and       *)
(* IndentedChildren; under a conditional part it lists those of one branch *)
(* only (FoldCondition: expanded, RoundtripCondition: not_roundtrip,       *)
(* SummarizableCondition: detail), so a foldable of the other branch is    *)
(* not reported.                                                           *)

\* the parts directly below a part, left to right, that count for foldables
CountedBelow(p) ==
  CASE p.type \in {"Siblings", "OnSeparateLines", "IndentedChildren"} -> p.children
    [] p.type = "FoldCondition" -> <<p.expanded>>
    [] p.type = "RoundtripCondition" -> <<p.not_roundtrip>>
    [] p.type = "SummarizableCondition" -> <<p.detail>>
    [] p.type \in {"EmptyPart", "Text", "VerticalSpace", "FoldableTreeNode"} -> <<>>
    [] OTHER -> <<p.child>>

\* all the parts directly below a part
AllBelow(p) ==
  CASE p.type = "FoldCondition" -> <<p.collapsed, p.expanded>>
    [] p.type = "RoundtripCondition" -> <<p.roundtrip, p.not_roundtrip>>
    [] p.type = "SummarizableCondition" -> <<p.summary, p.detail>>
    [] OTHER -> CountedBelow(p)

RECURSIVE FoldablePaths(_)
\* the positions of the foldable nodes below p, each as the indices of the
\* counted parts that lead to it
FoldablePaths(p) ==
  IF p.type = "FoldableTreeNode" THEN {<<>>}
  ELSE UNION {{<<i>> \o path : path \in FoldablePaths(CountedBelow(p)[i])}
              : i \in 1..Len(CountedBelow(p))}

RECURSIVE PartAt(_, _)
PartAt(p, path) ==
  IF path = <<>> THEN p
  ELSE PartAt(CountedBelow(p)[Head(path)], Tail(path))

\* position a is to the left of position b; no foldable lies below another
LeftOf(a, b) ==
  \E k \in 1..Len(a) :
    /\ k <= Len(b)
    /\ SubSeq(a, 1, k - 1) = SubSeq(b, 1, k - 1)
    /\ a[k] < b[k]

RECURSIVE Labels(_)
\* the labels of all the foldable nodes in a part, whatever the branch
Labels(p) ==
  IF p.type = "FoldableTreeNode" THEN {p.label}
  ELSE UNION {Labels(AllBelow(p)[i]) : i \in 1..Len(AllBelow(p))}

C25_FoldablesLeftToRight ==
  pc = "query" =>
    LET paths == FoldablePaths(part)
    IN /\ Len(part_foldables) = Cardinality(paths)
       /\ \A path \in paths :
            part_foldables[Cardinality({q \in paths : LeftOf(q, path)}) + 1]
              = PartAt(part, path)

\* OnSeparateLines of a fold condition and of a foldable f: the foldable of
\* the expanded branch comes first, then f, and the one of the collapsed
\* branch is left out
C25_Witness ==
  /\ pc = "query"
  /\ part.type = "OnSeparateLines"
  /\ part.children[1].type = "FoldCondition"
  /\ part_foldables = <<FoldableTreeNode(<<"e">>), FoldableTreeNode(<<"f">>)>>
  /\ <<"c">> \in Labels(part)

----------------------------------------------------------------------------
(* C26: tags_in_this_part of a part is the union of the tags of all the    *)
(* BaseTaggedGroup nodes in its subtree, those in both branches of every   *)
(* conditional part included; leaves have no tags and no part drops the    *)
(* tag of a descendant.                                                    *)

RECURSIVE TaggedGroups(_)
\* the BaseTaggedGroup nodes in the subtree of p
TaggedGroups(p) ==
  (IF p.type = "BaseTaggedGroup" THEN {p} ELSE {})
  \cup UNION {TaggedGroups(AllBelow(p)[i]) : i \in 1..Len(AllBelow(p))}

C26_TagsOfWholeSubtree ==
  pc = "query" =>
    part_tags = UNION {group.tags : group \in TaggedGroups(part)}

\* a tag that occurs in the collapsed branch of a fold condition only, and
\* one above it
C26_Witness ==
  /\ pc = "query"
  /\ part.type = "BaseTaggedGroup"
  /\ part.child.type = "IndentedChildren"
  /\ part_tags = {Tag, "collapsed"}

----------------------------------------------------------------------------
(* C27: every part hands expanded_parent, roundtrip_mode and the           *)
(* render_context it was given on to each child it renders; the only       *)
(* argument it changes is indent: IndentedChildren adds 2 when expanded,   *)
(* and ScopedSelectableAnnotation renders its child at indent 0 in         *)
(* roundtrip mode.                                                         *)

\* the call that made call number i
CallerOf(i) ==
  calls[CHOOSE j \in Ancestors(i) : calls[j].depth = calls[i].depth - 1]

\* the indent that the part of call c gives to the children it renders
IndentFor(c) ==
  IF c.part.type = "IndentedChildren" /\ c.expanded_parent THEN c.indent + 2
  ELSE IF c.part.type = "ScopedSelectableAnnotation" /\ c.roundtrip_mode THEN 0
  ELSE c.indent

C27_ArgumentsHandedOn ==
  /\ pc = "render_to_text" =>
       /\ calls[1] = TextCall(part, expanded_parent, indent, roundtrip_mode,
                              render_context, 0)
       /\ \A i \in 2..Len(calls) :
            LET caller == CallerOf(i)
            IN /\ calls[i].expanded_parent = caller.expanded_parent
               /\ calls[i].roundtrip_mode = caller.roundtrip_mode
               /\ calls[i].render_context = caller.render_context
               /\ calls[i].indent = IndentFor(caller)
  /\ pc = "render_to_html" =>
       \A i \in 2..Len(calls) :
         calls[i].render_context = CallerOf(i).render_context

\* an expanded roundtrip rendering at indent 1 of an annotation around
\* IndentedChildren: the annotation renders its child at indent 0, and the
\* IndentedChildren its children at indent 2
C27_Witness ==
  /\ pc = "render_to_text"
  /\ expanded_parent
  /\ roundtrip_mode
  /\ indent = 1
  /\ ~raised
  /\ part.type = "ScopedSelectableAnnotation"
  /\ part.child.type = "IndentedChildren"
  /\ calls[2].indent = 0
  /\ \E i \in 3..Len(calls) :
       /\ CallerOf(i).part.type = "IndentedChildren"
       /\ calls[i].indent = 2

====
